---- MODULE Spec2Model ----
(***************************************************************************)
(* Afterlife: tag index, latest-head resolver, ledger query client,        *)
(* document fetch client and chain verifier.                               *)
(***************************************************************************)
EXTENDS Integers, Sequences, FiniteSets, TLC

\* ------------------------------------------------------------------------
\* Bounds
\* ------------------------------------------------------------------------
MaxEdges == 3
MaxHeight == 1
MaxRuns == 2
MaxTags == 3
MaxEndpoints == 3
MaxGateways == 3
MaxIdeas == 2
MaxItems == 2
MaxPublishIdeas == 2
MaxVerifyAttempts == 2
MaxGatewayCalls == 2

\* ticks of the model after which the 12 s timer of a request is due
TimeoutTicks == 2

\* ------------------------------------------------------------------------
\* JavaScript values
\* ------------------------------------------------------------------------
Null == [t |-> "null"]
Undefined == [t |-> "undefined"]
Str(s) == [t |-> "string", v |-> s]
Arr(items) == [t |-> "array", items |-> items]
Num(n) == [t |-> "number", n |-> n]

\* a JSON object: f maps its property names to their values
Obj(f) == [t |-> "object", f |-> f]

\* value?.name : the property, Undefined when value is no object or lacks it
Get(value, name) ==
  IF value.t = "object" /\ name \in DOMAIN value.f THEN value.f[name] ELSE Undefined

\* the truthiness of a value
Truthy(value) ==
  CASE value.t = "undefined" -> FALSE
    [] value.t = "null" -> FALSE
    [] value.t = "string" -> value.v # ""
    [] value.t = "number" -> value.n # 0
    [] OTHER -> TRUE

\* `${value}`
Template(value) ==
  CASE value.t = "string" -> value.v
    [] value.t = "undefined" -> "undefined"
    [] value.t = "null" -> "null"
    [] value.t = "number" -> ToString(value.n)
    [] OTHER -> "[object Object]"

\* A JavaScript Map: the entries in insertion order; set() on a present key
\* keeps the position of the key.
EmptyMap == << >>

MapHas(m, k) == \E i \in 1..Len(m) : m[i].k = k

MapIndex(m, k) == CHOOSE i \in 1..Len(m) : m[i].k = k

MapGet(m, k) == IF MapHas(m, k) THEN m[MapIndex(m, k)].v ELSE Undefined

MapSet(m, k, v) ==
  IF MapHas(m, k) THEN [m EXCEPT ![MapIndex(m, k)] = [k |-> k, v |-> v]]
  ELSE Append(m, [k |-> k, v |-> v])

MapValues(m) == [i \in 1..Len(m) |-> m[i].v]

MapSize(m) == Len(m)

\* ------------------------------------------------------------------------
\* State
\* ------------------------------------------------------------------------
\* groupLatestHeadsBySelfId: input, loop index, byId map, output, previous
\* output, number of the run, position
VARIABLES edges, gi, byId, grouped, gprev, grun, gpc

\* tagsToMap / tagFirst: input tag list, built map, queried name, result of
\* tagFirst, position
VARIABLES tTags, tMap, tName, tFirst, tpc

\* graphqlRequest and its callers: number of endpoints, index of the current
\* endpoint, the attempts made (endpoint, response), lastErr, the returned
\* data, the thrown error, position; the caller, its result and position
VARIABLES qEndpoints, qIdx, qAttempts, qLastErr, qResult, qThrown, qpc,
          qCaller, qOut, cpc

\* fetchTxJson: number of gateways, index of the current gateway, the
\* requests made (gateway, response), lastErr, the returned JSON, the thrown
\* error, position
VARIABLES fGateways, fIdx, fAttempts, fLastErr, fResult, fThrown, fpc

\* verify.mjs: the ledger, the run mode and its argument, position, stage of
\* the walk, the transaction under verifyTx and its meta, the report of
\* verifyTx, the latest head, snapshot_tx, the idea refs and loop index, the
\* idea reports, the accumulated errors and warnings, the returned report,
\* the thrown error, the calls made, the exit code
VARIABLES ledger, vMode, vArg, vpc, vStage, vTx, vMeta, vTxReport, vLatest,
          vSnapshotTx, vIdeaRefs, vIdx, vIdeaReports, vErrors, vWarnings,
          vReport, vThrown, vCalls, vExit

\* parsers and validators of documents: the JSON value given, the function
\* applied to it, what the function returned or threw, position
VARIABLES pJson, pFn, pOut, ppc

\* publish-self.mjs: the input file, the options, the head that the index
\* and the gateways hold before the run, position, index of the idea loop,
\* uploadedIdeas, parentSnapshotTx, the two payloads and their tx ids, the
\* verification record, the calls of runSave and of getLatestHeadTx made so
\* far, the printed report, the thrown error, the exit code
VARIABLES input, dryRun, verify, verifyAttempts, prior, bpc, ideaIdx,
          uploadedIdeas, parentSnapshotTx, snapshotPayload, snapshotTx,
          headPayload, headTx, verification, saves, lookups, bOut, bErr, bExit

\* arweave-turbo-fetch/scripts/fetch.mjs: the command-line options, the
\* environment, the transactions that the gateways hold, the gateway list,
\* position, index of the current gateway loop, the tag queries made so far,
\* txId and txTags, the data downloads made so far, the fetched buffer, the
\* printed result, the bytes written to output_path, the error, the exit code
VARIABLES uArgs, uEnv, uChain, uGateways, upc, uIdx, uQueries, uTxId, uTxTags,
          uResolvedBy, uDownloads, uFetched, uOut, uWritten, uErr, uExit

\* The gateway override of the browse page (index.ts, arweave.ts
\* getGateways): whether localStorage exists, the item afterlifeGatewayUrl
\* (Null when absent), the value of the input field, the calls of
\* getGateways made so far, position
VARIABLES hasLocalStorage, afterlifeGatewayUrl, gatewayOverride, gatewayCalls, opc

\* arweave-turbo-save/scripts/save.mjs: the options, the environment, the
\* sizes of the file and of its compressed forms, position, the selected
\* payload variant, the quote of the unauthenticated client, the quote of
\* the authenticated client, the upload requests sent so far, the attempts
\* list, uploadMode and uploadResponse, the printed result, the error, the
\* exit code
VARIABLES sArgs, sEnv, sFile, spc, selected, sQuote, signedQuote, sUploads,
          sAttempts, uploadMode, uploadResponse, sOut, sErr, sExit

\* arweave.ts, one call of graphqlRequest or fetchTxJson seen with its timer:
\* the function called, the number of endpoints, the loop index, position,
\* the state of the abort timer of fetchWithTimeout, the time the attempt has
\* taken, the outcome of each attempt, lastErr, whether a value was returned
VARIABLES wCaller, wEndpoints, wIdx, wpc, timer, wElapsed, wAttempts, wLastErr,
          wResult

groupVars == << edges, gi, byId, grouped, gprev, grun, gpc >>

verifyVars == << ledger, vMode, vArg, vpc, vStage, vTx, vMeta, vTxReport, vLatest,
                 vSnapshotTx, vIdeaRefs, vIdx, vIdeaReports, vErrors, vWarnings,
                 vReport, vThrown, vCalls, vExit >>

tagVars == << tTags, tMap, tName, tFirst, tpc >>

gqlVars == << qEndpoints, qIdx, qAttempts, qLastErr, qResult, qThrown, qpc,
              qCaller, qOut, cpc >>

fetchVars == << fGateways, fIdx, fAttempts, fLastErr, fResult, fThrown, fpc >>

parseVars == << pJson, pFn, pOut, ppc >>

publishVars == << input, dryRun, verify, verifyAttempts, prior, bpc, ideaIdx,
                  uploadedIdeas, parentSnapshotTx, snapshotPayload, snapshotTx,
                  headPayload, headTx, verification, saves, lookups, bOut, bErr, bExit >>

turboVars == << uArgs, uEnv, uChain, uGateways, upc, uIdx, uQueries, uTxId, uTxTags,
                uResolvedBy, uDownloads, uFetched, uOut, uWritten, uErr, uExit >>

overrideVars == << hasLocalStorage, afterlifeGatewayUrl, gatewayOverride, gatewayCalls, opc >>

saveVars == << sArgs, sEnv, sFile, spc, selected, sQuote, signedQuote, sUploads, sAttempts, uploadMode, uploadResponse, sOut, sErr, sExit >>

timeoutVars == << wCaller, wEndpoints, wIdx, wpc, timer, wElapsed, wAttempts, wLastErr, wResult >>

vars == << groupVars, tagVars, gqlVars, fetchVars, verifyVars, parseVars, publishVars, turboVars, overrideVars, saveVars, timeoutVars >>

notGroup == << tagVars, gqlVars, fetchVars, verifyVars, parseVars, publishVars, turboVars, overrideVars, saveVars, timeoutVars >>

notTags == << groupVars, gqlVars, fetchVars, verifyVars, parseVars, publishVars, turboVars, overrideVars, saveVars, timeoutVars >>

notGql == << groupVars, tagVars, fetchVars, verifyVars, parseVars, publishVars, turboVars, overrideVars, saveVars, timeoutVars >>

notFetch == << groupVars, tagVars, gqlVars, verifyVars, parseVars, publishVars, turboVars, overrideVars, saveVars, timeoutVars >>

notVerify == << groupVars, tagVars, gqlVars, fetchVars, parseVars, publishVars, turboVars, overrideVars, saveVars, timeoutVars >>

notParse == << groupVars, tagVars, gqlVars, fetchVars, verifyVars, publishVars, turboVars, overrideVars, saveVars, timeoutVars >>

ParseIdle ==
  /\ pJson = Undefined
  /\ pFn = ""
  /\ pOut = Undefined
  /\ ppc = "idle"

notPublish == << groupVars, tagVars, gqlVars, fetchVars, verifyVars, parseVars, turboVars, overrideVars, saveVars, timeoutVars >>

PublishIdle ==
  /\ input = Undefined
  /\ dryRun = FALSE
  /\ verify = FALSE
  /\ verifyAttempts = 0
  /\ prior = Undefined
  /\ bpc = "idle"
  /\ ideaIdx = 1
  /\ uploadedIdeas = << >>
  /\ parentSnapshotTx = Undefined
  /\ snapshotPayload = Undefined
  /\ snapshotTx = Undefined
  /\ headPayload = Undefined
  /\ headTx = Undefined
  /\ verification = Undefined
  /\ saves = << >>
  /\ lookups = << >>
  /\ bOut = Undefined
  /\ bErr = Undefined
  /\ bExit = -1

notTurbo == << groupVars, tagVars, gqlVars, fetchVars, verifyVars, parseVars, publishVars, overrideVars, saveVars, timeoutVars >>

TurboIdle ==
  /\ uArgs = Undefined
  /\ uEnv = Undefined
  /\ uChain = << >>
  /\ uGateways = << >>
  /\ upc = "idle"
  /\ uIdx = 1
  /\ uQueries = << >>
  /\ uTxId = Undefined
  /\ uTxTags = Undefined
  /\ uResolvedBy = Undefined
  /\ uDownloads = << >>
  /\ uFetched = Undefined
  /\ uOut = Undefined
  /\ uWritten = Undefined
  /\ uErr = Undefined
  /\ uExit = -1

notOverride == << groupVars, tagVars, gqlVars, fetchVars, verifyVars, parseVars, publishVars, turboVars, saveVars, timeoutVars >>

OverrideIdle ==
  /\ hasLocalStorage = FALSE
  /\ afterlifeGatewayUrl = Null
  /\ gatewayOverride = ""
  /\ gatewayCalls = << >>
  /\ opc = "idle"

notSave == << groupVars, tagVars, gqlVars, fetchVars, verifyVars, parseVars, publishVars, turboVars, overrideVars, timeoutVars >>

SaveIdle ==
  /\ sArgs = Undefined
  /\ sEnv = Undefined
  /\ sFile = Undefined
  /\ spc = "idle"
  /\ selected = Undefined
  /\ sQuote = Undefined
  /\ signedQuote = Undefined
  /\ sUploads = << >>
  /\ sAttempts = << >>
  /\ uploadMode = Null
  /\ uploadResponse = Null
  /\ sOut = Undefined
  /\ sErr = Undefined
  /\ sExit = -1

notTimeout == << groupVars, tagVars, gqlVars, fetchVars, verifyVars, parseVars, publishVars, turboVars, overrideVars, saveVars >>

TimeoutIdle ==
  /\ wCaller = "none"
  /\ wEndpoints = 0
  /\ wIdx = 0
  /\ wpc = "idle"
  /\ timer = "none"
  /\ wElapsed = 0
  /\ wAttempts = << >>
  /\ wLastErr = Undefined
  /\ wResult = Undefined

TagsIdle ==
  /\ tTags = Undefined
  /\ tMap = EmptyMap
  /\ tName = ""
  /\ tFirst = Undefined
  /\ tpc = "idle"

GroupIdle ==
  /\ edges = << >>
  /\ gi = 1
  /\ byId = EmptyMap
  /\ grouped = << >>
  /\ gprev = << >>
  /\ grun = 1
  /\ gpc = "idle"

GqlIdle ==
  /\ qEndpoints = 0
  /\ qIdx = 1
  /\ qAttempts = << >>
  /\ qLastErr = Undefined
  /\ qResult = Undefined
  /\ qThrown = Undefined
  /\ qpc = "idle"
  /\ qCaller = ""
  /\ qOut = Undefined
  /\ cpc = "idle"

VerifyIdle ==
  /\ ledger = Undefined
  /\ vMode = ""
  /\ vArg = ""
  /\ vpc = "idle"
  /\ vStage = ""
  /\ vTx = ""
  /\ vMeta = Undefined
  /\ vTxReport = Undefined
  /\ vLatest = Undefined
  /\ vSnapshotTx = ""
  /\ vIdeaRefs = << >>
  /\ vIdx = 1
  /\ vIdeaReports = << >>
  /\ vErrors = << >>
  /\ vWarnings = << >>
  /\ vReport = Undefined
  /\ vThrown = Undefined
  /\ vCalls = << >>
  /\ vExit = -1

FetchIdle ==
  /\ fGateways = 0
  /\ fIdx = 1
  /\ fAttempts = << >>
  /\ fLastErr = Undefined
  /\ fResult = Undefined
  /\ fThrown = Undefined
  /\ fpc = "idle"

\* ------------------------------------------------------------------------
\* Tag index (tags.ts)
\* ------------------------------------------------------------------------
Tag(n, v) == [name |-> n, value |-> v]

\* existing.push(tag.value) wrongly replaced by an overwrite of the list
pushValueOverwrite(existing, value) == << value >>

pushValue(existing, value) == Append(existing, value)

\* One iteration of the loop of tagsToMap.
tagsToMapStep(map, tag) ==
  LET existing == IF MapHas(map, tag.name) THEN MapGet(map, tag.name) ELSE << >>
  IN MapSet(map, tag.name, pushValue(existing, tag.value))

RECURSIVE tagsToMapLoop(_, _, _)
tagsToMapLoop(map, tags, i) ==
  IF i > Len(tags) THEN map
  ELSE tagsToMapLoop(tagsToMapStep(map, tags[i]), tags, i + 1)

\* tags is an array of tags, or Null / Undefined
tagsToMap(tags) ==
  IF tags.t # "array" THEN EmptyMap
  ELSE tagsToMapLoop(EmptyMap, tags.items, 1)

\* tags.get(name)?.[0] : a string, or Undefined
tagFirst(tags, name) ==
  IF MapHas(tags, name) /\ Len(MapGet(tags, name)) > 0
  THEN Str(MapGet(tags, name)[1])
  ELSE Undefined

TagNames == {"Self-Id", "Entity"}
TagValues == {"A", "B"}
QueryNames == TagNames \cup {"App-Name"}

RECURSIVE TagSeqs(_)
TagSeqs(n) ==
  IF n = 0 THEN { << >> }
  ELSE LET shorter == TagSeqs(n - 1)
       IN shorter \cup
          { Append(s, Tag(nv[1], nv[2])) :
              s \in { q \in shorter : Len(q) = n - 1 }, nv \in TagNames \X TagValues }

InitTags ==
  /\ tTags \in {Null, Undefined} \cup { Arr(s) : s \in TagSeqs(MaxTags) }
  /\ tMap = EmptyMap
  /\ tName = ""
  /\ tFirst = Undefined
  /\ tpc = "start"
  /\ GroupIdle /\ GqlIdle /\ FetchIdle /\ VerifyIdle /\ ParseIdle /\ PublishIdle /\ TurboIdle /\ OverrideIdle /\ SaveIdle /\ TimeoutIdle

\* const map = tagsToMap(tags)
TagsBuild ==
  /\ tpc = "start"
  /\ tMap' = tagsToMap(tTags)
  /\ tpc' = "built"
  /\ UNCHANGED << tTags, tName, tFirst, notTags >>

\* tagFirst(map, name)
TagsFirst ==
  /\ tpc = "built"
  /\ \E name \in QueryNames :
       /\ tName' = name
       /\ tFirst' = tagFirst(tMap, name)
  /\ tpc' = "queried"
  /\ UNCHANGED << tTags, tMap, notTags >>

NextTags == TagsBuild \/ TagsFirst

SpecTags == InitTags /\ [][NextTags]_vars

\* ------------------------------------------------------------------------
\* Latest-state resolver (arweave.ts, groupLatestHeadsBySelfId)
\* ------------------------------------------------------------------------
Heights == 0..MaxHeight
Blocks == {Null} \cup [height : Heights]

\* the tags of the records: Self-Id A, Self-Id B before a second Self-Id,
\* no Self-Id tag, and an empty first Self-Id
TagsOfA == Arr(<< Tag("Self-Id", "A") >>)
TagsOfB == Arr(<< Tag("Entity", "SelfHead"), Tag("Self-Id", "B"), Tag("Self-Id", "A") >>)
TagsNoSelfId == Arr(<< Tag("Entity", "SelfHead") >>)
TagsEmptySelfId == Arr(<< Tag("Self-Id", ""), Tag("Self-Id", "A") >>)

\* block and tags of the input records
NodeKinds ==
  (Blocks \X {TagsOfA, TagsOfB})
  \cup { << Null, TagsNoSelfId >>, << [height |-> MaxHeight], TagsEmptySelfId >> }

\* node.block?.height ?? -1
blockHeight(node) == IF node.block = Null THEN -1 ELSE node.block.height

\* tagFirst(tagMap, "Self-Id") ?? ""
selfIdOf(node) ==
  LET first == tagFirst(tagsToMap(node.tags), "Self-Id")
  IN IF first = Undefined THEN "" ELSE first.v

\* the comparison with >= : a later record of equal height replaces the kept one
replacesExistingGe(hasExisting, nodeHeight, existingHeight) ==
  ~hasExisting \/ nodeHeight >= existingHeight

\* the comparison reversed: the lowest record is kept
replacesExistingLt(hasExisting, nodeHeight, existingHeight) ==
  ~hasExisting \/ nodeHeight < existingHeight

\* !existing || nodeHeight > existingHeight
replacesExisting(hasExisting, nodeHeight, existingHeight) ==
  ~hasExisting \/ nodeHeight > existingHeight

\* comparator with the operands swapped: ascending order
sortsBeforeAsc(b, a) == blockHeight(a) - blockHeight(b) > 0

\* a comparator that also places b before a record of equal height
sortsBeforeOrLevel(b, a) == blockHeight(b) - blockHeight(a) >= 0

\* (a, b) => (b.block?.height ?? -1) - (a.block?.height ?? -1) is positive:
\* b is placed before a
sortsBefore(b, a) == blockHeight(b) - blockHeight(a) > 0

\* Array.prototype.sort is stable: x goes behind every element it does not
\* sort before.
RECURSIVE insertSorted(_, _)
insertSorted(sorted, x) ==
  IF sorted = << >> THEN << x >>
  ELSE IF sortsBefore(x, sorted[Len(sorted)])
       THEN Append(insertSorted(SubSeq(sorted, 1, Len(sorted) - 1), x), sorted[Len(sorted)])
       ELSE Append(sorted, x)

RECURSIVE sortNodes(_)
sortNodes(nodes) ==
  IF nodes = << >> THEN << >>
  ELSE insertSorted(sortNodes(SubSeq(nodes, 1, Len(nodes) - 1)), nodes[Len(nodes)])

\* the byId map after the loop over edges from position i on
RECURSIVE groupLoop(_, _, _)
groupLoop(es, i, map) ==
  IF i > Len(es) THEN map
  ELSE LET node == es[i].node
           selfId == selfIdOf(node)
           existing == MapGet(map, selfId)
           existingHeight == IF existing = Undefined THEN -1 ELSE blockHeight(existing)
       IN IF selfId = "" THEN groupLoop(es, i + 1, map)
          ELSE IF replacesExisting(existing # Undefined, blockHeight(node), existingHeight)
            THEN groupLoop(es, i + 1, MapSet(map, selfId, node))
          ELSE groupLoop(es, i + 1, map)

\* export function groupLatestHeadsBySelfId(edges): the value of one call
groupLatestHeadsBySelfId(es) == sortNodes(MapValues(groupLoop(es, 1, EmptyMap)))


EdgeAt(i, block, tags) ==
  [cursor |-> i, node |-> [id |-> i, block |-> block, tags |-> tags]]

\* the edge lists of length n: the record at position i has the transaction id i
EdgeLists(n) ==
  { [i \in 1..n |-> EdgeAt(i, bt[i][1], bt[i][2])] :
      bt \in [1..n -> NodeKinds] }

InitGroup ==
  /\ edges \in UNION { EdgeLists(n) : n \in 0..MaxEdges }
  /\ gi = 1
  /\ byId = EmptyMap
  /\ grouped = << >>
  /\ gprev = << >>
  /\ grun = 1
  /\ gpc = "loop"
  /\ TagsIdle /\ GqlIdle /\ FetchIdle /\ VerifyIdle /\ ParseIdle /\ PublishIdle /\ TurboIdle /\ OverrideIdle /\ SaveIdle /\ TimeoutIdle

\* if (!selfId) continue;
GroupSkip ==
  /\ gpc = "loop"
  /\ gi <= Len(edges)
  /\ selfIdOf(edges[gi].node) = ""
  /\ gi' = gi + 1
  /\ UNCHANGED << edges, byId, grouped, gprev, grun, gpc, notGroup >>

\* if (!existing || nodeHeight > existingHeight) byId.set(selfId, node);
GroupSet ==
  /\ gpc = "loop"
  /\ gi <= Len(edges)
  /\ LET node == edges[gi].node
         selfId == selfIdOf(node)
         existing == MapGet(byId, selfId)
         existingHeight == IF existing = Undefined THEN -1 ELSE blockHeight(existing)
     IN /\ selfId # ""
        /\ replacesExisting(existing # Undefined, blockHeight(node), existingHeight)
        /\ byId' = MapSet(byId, selfId, node)
  /\ gi' = gi + 1
  /\ UNCHANGED << edges, grouped, gprev, grun, gpc, notGroup >>

GroupKeep ==
  /\ gpc = "loop"
  /\ gi <= Len(edges)
  /\ LET node == edges[gi].node
         selfId == selfIdOf(node)
         existing == MapGet(byId, selfId)
         existingHeight == IF existing = Undefined THEN -1 ELSE blockHeight(existing)
     IN /\ selfId # ""
        /\ ~replacesExisting(existing # Undefined, blockHeight(node), existingHeight)
  /\ gi' = gi + 1
  /\ UNCHANGED << edges, byId, grouped, gprev, grun, gpc, notGroup >>

\* return [...byId.values()].sort(...)
GroupReturn ==
  /\ gpc = "loop"
  /\ gi > Len(edges)
  /\ grouped' = sortNodes(MapValues(byId))
  /\ gpc' = "done"
  /\ UNCHANGED << edges, gi, byId, gprev, grun, notGroup >>

\* a further call with the same input
GroupRerun ==
  /\ gpc = "done"
  /\ grun < MaxRuns
  /\ gprev' = grouped
  /\ grun' = grun + 1
  /\ gi' = 1
  /\ byId' = EmptyMap
  /\ grouped' = << >>
  /\ gpc' = "loop"
  /\ UNCHANGED << edges, notGroup >>

NextGroup == GroupSkip \/ GroupSet \/ GroupKeep \/ GroupReturn \/ GroupRerun

SpecGroup == InitGroup /\ [][NextGroup]_vars

\* ------------------------------------------------------------------------
\* Ledger query client (arweave.ts, graphqlRequest and its callers)
\* ------------------------------------------------------------------------
DEFAULT_GRAPHQL_ENDPOINTS == << "https://arweave.net/graphql", "https://ar-io.dev/graphql" >>

\* an endpoint list of n entries: the defaults first
EndpointList(n) ==
  [i \in 1..n |-> IF i <= Len(DEFAULT_GRAPHQL_ENDPOINTS)
                  THEN DEFAULT_GRAPHQL_ENDPOINTS[i]
                  ELSE "https://ep" \o ToString(i) \o "/graphql"]

\* an Error object; attempt identifies the loop iteration that created it
Err(name, message, attempt) ==
  [t |-> "error", name |-> name, message |-> message, attempt |-> attempt]

\* the body of a response that is not JSON
BadJson == [t |-> "badjson"]

TxNode(id, tags) ==
  [id |-> id, owner |-> [address |-> "o1"], block |-> [height |-> 10], tags |-> tags]

HeadNode == TxNode("tx1", Arr(<< Tag("Self-Id", "S") >>))

\* { transactions: { edges } }
TxData(edgeItems) == [t |-> "object", transactions |-> [edges |-> Arr(edgeItems)]]

GqlDatas == { Undefined, Null, TxData(<< >>), TxData(<< [cursor |-> "c1", node |-> HeadNode] >>) }

GqlErrorLists ==
  { Undefined, Arr(<< >>), Arr(<< [message |-> "e1"], [message |-> "e2"] >>) }

\* what an endpoint does with one request: fetch rejects (network error or
\* timeout abort), or answers with a status and a body
GqlResponses ==
  { [net |-> "reject", status |-> 0, json |-> Undefined],
    [net |-> "ok", status |-> 500, json |-> Undefined],
    [net |-> "ok", status |-> 200, json |-> BadJson] }
  \cup { [net |-> "ok", status |-> 200, json |-> [t |-> "object", errors |-> e, data |-> d]] :
           e \in GqlErrorLists, d \in GqlDatas }

\* res.ok
resOk(resp) == resp.status >= 200 /\ resp.status <= 299

\* json.errors.map((e) => e.message).join("; ")
RECURSIVE joinMessages(_, _)
joinMessages(errors, i) ==
  IF i > Len(errors) THEN ""
  ELSE IF i = Len(errors) THEN errors[i].message
  ELSE errors[i].message \o "; " \o joinMessages(errors, i + 1)

\* any errors array, also an empty one, taken for a declared error
hasErrorsAnyArray(json) == json.errors.t = "array"

\* declared errors counted only when the body carries no data
hasErrorsWithoutData(json) ==
  /\ json.errors.t = "array" /\ Len(json.errors.items) > 0
  /\ json.data \in {Undefined, Null}

\* json.errors?.length
hasErrors(json) == json.errors.t = "array" /\ Len(json.errors.items) > 0

\* an empty edge list taken for missing data
dataMissingOrEmpty(json) ==
  \/ json.data = Undefined
  \/ json.data = Null
  \/ Len(json.data.transactions.edges.items) = 0

\* !json.data
dataMissing(json) == json.data = Undefined \/ json.data = Null

\* the error thrown inside the try block of graphqlRequest for a response,
\* Undefined when the attempt returns json.data
gqlAttemptError(endpoint, resp, attempt) ==
  IF resp.net = "reject" THEN Err("TypeError", "fetch failed", attempt)
  ELSE IF ~resOk(resp)
    THEN Err("Error", "GraphQL " \o endpoint \o " HTTP " \o ToString(resp.status), attempt)
  ELSE IF resp.json = BadJson THEN Err("SyntaxError", "Unexpected token", attempt)
  ELSE IF hasErrors(resp.json)
    THEN Err("Error", joinMessages(resp.json.errors.items, 1), attempt)
  ELSE IF dataMissing(resp.json)
    THEN Err("Error", "GraphQL " \o endpoint \o " missing data", attempt)
  ELSE Undefined

\* the first error is kept instead of the last
keepFirstErr(lastErr, err) == IF lastErr = Undefined THEN err ELSE lastErr

\* lastErr = err
catchErr(lastErr, err) == err

InitGql ==
  /\ qEndpoints \in { EndpointList(n) : n \in 1..MaxEndpoints }
  /\ qIdx = 1
  /\ qAttempts = << >>
  /\ qLastErr = Undefined
  /\ qResult = Undefined
  /\ qThrown = Undefined
  /\ qpc = "loop"
  /\ qCaller \in {"getLatestSelfHead", "listSelfHeadEdges"}
  /\ qOut = Undefined
  /\ cpc = "await"
  /\ GroupIdle /\ TagsIdle /\ FetchIdle /\ VerifyIdle /\ ParseIdle /\ PublishIdle /\ TurboIdle /\ OverrideIdle /\ SaveIdle /\ TimeoutIdle

\* an iteration whose try block throws: catch (err) { lastErr = err; ...
GqlAttemptFails ==
  /\ qpc = "loop"
  /\ qIdx <= Len(qEndpoints)
  /\ \E resp \in GqlResponses :
       LET err == gqlAttemptError(qEndpoints[qIdx], resp, qIdx)
       IN /\ err # Undefined
          /\ qAttempts' = Append(qAttempts, [endpoint |-> qIdx, resp |-> resp, err |-> err])
          /\ qLastErr' = catchErr(qLastErr, err)
  /\ qpc' = "sleep"
  /\ UNCHANGED << qEndpoints, qIdx, qResult, qThrown, qCaller, qOut, cpc,
                  notGql >>

\* ... await sleep(120); } and the next endpoint of the for loop
GqlSleep ==
  /\ qpc = "sleep"
  /\ qIdx' = qIdx + 1
  /\ qpc' = "loop"
  /\ UNCHANGED << qEndpoints, qAttempts, qLastErr, qResult, qThrown, qCaller,
                  qOut, cpc, notGql >>

\* an iteration that reaches return json.data
GqlAttemptReturns ==
  /\ qpc = "loop"
  /\ qIdx <= Len(qEndpoints)
  /\ \E resp \in GqlResponses :
       /\ gqlAttemptError(qEndpoints[qIdx], resp, qIdx) = Undefined
       /\ qAttempts' = Append(qAttempts, [endpoint |-> qIdx, resp |-> resp, err |-> Undefined])
       /\ qResult' = resp.json.data
  /\ qpc' = "returned"
  /\ UNCHANGED << qEndpoints, qIdx, qLastErr, qThrown, qCaller, qOut, cpc,
                  notGql >>

\* throw lastErr instanceof Error ? lastErr : new Error("GraphQL request failed")
GqlThrows ==
  /\ qpc = "loop"
  /\ qIdx > Len(qEndpoints)
  /\ qThrown' = IF qLastErr # Undefined THEN qLastErr
                ELSE Err("Error", "GraphQL request failed", 0)
  /\ qpc' = "thrown"
  /\ UNCHANGED << qEndpoints, qIdx, qAttempts, qLastErr, qResult, qCaller,
                  qOut, cpc, notGql >>

\* return data.transactions.edges?.[0]?.node ?? null
GetLatestSelfHeadReturns ==
  /\ qpc = "returned"
  /\ cpc = "await"
  /\ qCaller = "getLatestSelfHead"
  /\ LET items == qResult.transactions.edges.items
     IN qOut' = IF Len(items) > 0 THEN items[1].node ELSE Null
  /\ cpc' = "returned"
  /\ UNCHANGED << qEndpoints, qIdx, qAttempts, qLastErr, qResult, qThrown, qpc,
                  qCaller, notGql >>

\* return { edges: data.transactions.edges ?? [] }
ListSelfHeadEdgesReturns ==
  /\ qpc = "returned"
  /\ cpc = "await"
  /\ qCaller = "listSelfHeadEdges"
  /\ qOut' = [edges |-> qResult.transactions.edges]
  /\ cpc' = "returned"
  /\ UNCHANGED << qEndpoints, qIdx, qAttempts, qLastErr, qResult, qThrown, qpc,
                  qCaller, notGql >>

\* the callers do not catch: the error of graphqlRequest ends them
GqlCallerThrows ==
  /\ qpc = "thrown"
  /\ cpc = "await"
  /\ cpc' = "thrown"
  /\ UNCHANGED << qEndpoints, qIdx, qAttempts, qLastErr, qResult, qThrown, qpc,
                  qCaller, qOut, notGql >>

NextGql ==
  \/ GqlAttemptFails
  \/ GqlSleep
  \/ GqlAttemptReturns
  \/ GqlThrows
  \/ GetLatestSelfHeadReturns
  \/ ListSelfHeadEdgesReturns
  \/ GqlCallerThrows

SpecGql == InitGql /\ [][NextGql]_vars

\* ------------------------------------------------------------------------
\* Document fetch client (arweave.ts, fetchTxJson)
\* ------------------------------------------------------------------------
DEFAULT_GATEWAYS == << "https://arweave.net", "https://ar-io.dev" >>

\* a gateway string: its text without a trailing slash, and whether it ends
\* with a slash
Gateway(base, slash) == [base |-> base, slash |-> slash]

gatewayText(gw) == IF gw.slash THEN gw.base \o "/" ELSE gw.base

\* gateway lists of n entries: the defaults first; an entry may end with "/"
GatewayLists(n) ==
  { [i \in 1..n |-> Gateway(IF i <= Len(DEFAULT_GATEWAYS) THEN DEFAULT_GATEWAYS[i]
                            ELSE "https://gw" \o ToString(i), sl[i])] :
      sl \in [1..n -> BOOLEAN] }

TxId == "TX"

\* `${gw.replace(/\/$/, "")}/${txId}`
txUrl(gw, txId) == gw.base \o "/" \o txId

\* the text of a response body, and what JSON.parse makes of it
BodyTexts == { "{\"ok\":true}", "null", "<html>", "" }

jsonParses(text) == text \in { "{\"ok\":true}", "null" }

jsonParse(text) ==
  IF text = "{\"ok\":true}" THEN [t |-> "object", ok |-> TRUE]
  ELSE Null

GatewayResponses ==
  { [net |-> "reject", status |-> 0, text |-> ""],
    [net |-> "ok", status |-> 404, text |-> ""],
    [net |-> "ok", status |-> 500, text |-> ""] }
  \cup { [net |-> "ok", status |-> 200, text |-> b] : b \in BodyTexts }

\* the error thrown inside the try block of fetchTxJson for a response,
\* Undefined when the attempt returns JSON.parse(text)
fetchAttemptError(gw, resp, attempt) ==
  IF resp.net = "reject" THEN Err("TypeError", "fetch failed", attempt)
  ELSE IF ~resOk(resp)
    THEN Err("Error", "Gateway " \o gatewayText(gw) \o " HTTP " \o ToString(resp.status), attempt)
  ELSE IF ~jsonParses(resp.text) THEN Err("SyntaxError", "Unexpected token", attempt)
  ELSE Undefined

\* the loop ends at the first failure instead of moving on
nextGatewayStop(idx, n) == n + 1

\* for (const gw of gateways): the gateway after a failed one
nextGateway(idx, n) == idx + 1

InitFetch ==
  /\ fGateways \in UNION { GatewayLists(n) : n \in 1..MaxGateways }
  /\ fIdx = 1
  /\ fAttempts = << >>
  /\ fLastErr = Undefined
  /\ fResult = Undefined
  /\ fThrown = Undefined
  /\ fpc = "loop"
  /\ GroupIdle /\ TagsIdle /\ GqlIdle /\ VerifyIdle /\ ParseIdle /\ PublishIdle /\ TurboIdle /\ OverrideIdle /\ SaveIdle /\ TimeoutIdle

\* an iteration whose try block throws: catch (err) { lastErr = err; ...
FetchAttemptFails ==
  /\ fpc = "loop"
  /\ fIdx <= Len(fGateways)
  /\ \E resp \in GatewayResponses :
       LET err == fetchAttemptError(fGateways[fIdx], resp, fIdx)
       IN /\ err # Undefined
          /\ fAttempts' = Append(fAttempts,
               [gateway |-> fIdx, url |-> txUrl(fGateways[fIdx], TxId), resp |-> resp, err |-> err])
          /\ fLastErr' = catchErr(fLastErr, err)
  /\ fpc' = "sleep"
  /\ UNCHANGED << fGateways, fIdx, fResult, fThrown, notFetch >>

\* ... await sleep(120); } and the next gateway of the for loop
FetchSleep ==
  /\ fpc = "sleep"
  /\ fIdx' = nextGateway(fIdx, Len(fGateways))
  /\ fpc' = "loop"
  /\ UNCHANGED << fGateways, fAttempts, fLastErr, fResult, fThrown, notFetch >>

\* an iteration that reaches return JSON.parse(text)
FetchAttemptReturns ==
  /\ fpc = "loop"
  /\ fIdx <= Len(fGateways)
  /\ \E resp \in GatewayResponses :
       /\ fetchAttemptError(fGateways[fIdx], resp, fIdx) = Undefined
       /\ fAttempts' = Append(fAttempts,
            [gateway |-> fIdx, url |-> txUrl(fGateways[fIdx], TxId), resp |-> resp, err |-> Undefined])
       /\ fResult' = jsonParse(resp.text)
  /\ fpc' = "returned"
  /\ UNCHANGED << fGateways, fIdx, fLastErr, fThrown, notFetch >>

\* throw lastErr instanceof Error ? lastErr : new Error("Failed to fetch tx JSON")
FetchThrows ==
  /\ fpc = "loop"
  /\ fIdx > Len(fGateways)
  /\ fThrown' = IF fLastErr # Undefined THEN fLastErr
                ELSE Err("Error", "Failed to fetch tx JSON", 0)
  /\ fpc' = "thrown"
  /\ UNCHANGED << fGateways, fIdx, fAttempts, fLastErr, fResult, notFetch >>

NextFetch == FetchAttemptFails \/ FetchSleep \/ FetchAttemptReturns \/ FetchThrows

SpecFetch == InitFetch /\ [][NextFetch]_vars

\* ------------------------------------------------------------------------
\* Chain verifier (verify.mjs): validators
\* ------------------------------------------------------------------------
GRAPHQL_ENDPOINTS == << "https://arweave.net/graphql", "https://ar-io.dev/graphql" >>
GATEWAYS == << "https://arweave.net", "https://ar-io.dev" >>
EDGE_TYPES == { "supports", "contradicts", "refines", "depends-on", "derived-from" }

\* function tagsToMap(tags = [])
verifyTagsToMap(tags) ==
  IF tags.t = "undefined" THEN EmptyMap ELSE tagsToMapLoop(EmptyMap, tags.items, 1)

verifyTagFirst(tags, name) == tagFirst(tags, name)

hasAfterlifeNamespace(tags) ==
  /\ verifyTagFirst(tags, "App-Name") = Str("ar//afterlife")
  /\ verifyTagFirst(tags, "App-Tag") = Str("afterlife")
  /\ verifyTagFirst(tags, "Schema-Version") = Str("1")

\* !payload || typeof payload !== "object"
notAnObject(payload) == ~Truthy(payload) \/ payload.t \notin {"object", "array"}

\* the errors pushed by a conditional errors.push(message)
PushIf(cond, message) == IF cond THEN << message >> ELSE << >>

validateHeadPayload(payload) ==
  PushIf(notAnObject(payload), "SelfHead payload is not an object")
  \o PushIf(Get(payload, "schema") # Str("afterlife.selfhead@1"),
            "SelfHead schema must be afterlife.selfhead@1")
  \o PushIf(Get(payload, "self_id").t # "string", "SelfHead.self_id missing")
  \o PushIf(Get(payload, "name").t # "string", "SelfHead.name missing")
  \o PushIf(Get(payload, "snapshot_tx").t # "string", "SelfHead.snapshot_tx missing")

\* !it || typeof it !== "object" || typeof it.idea_id !== "string" || typeof it.tx_id !== "string"
invalidIdeaItem(it) ==
  \/ notAnObject(it)
  \/ Get(it, "idea_id").t # "string"
  \/ Get(it, "tx_id").t # "string"

\* the loop over payload.ideas: the ids set and the errors it leaves
RECURSIVE snapshotIdeasLoop(_, _, _, _)
snapshotIdeasLoop(items, i, ids, errors) ==
  IF i > Len(items) THEN [ids |-> ids, errors |-> errors]
  ELSE IF invalidIdeaItem(items[i])
    THEN snapshotIdeasLoop(items, i + 1, ids,
           Append(errors, "SelfSnapshot.ideas contains invalid item"))
  ELSE LET id == Get(items[i], "idea_id").v
       IN snapshotIdeasLoop(items, i + 1, ids \cup {id},
            errors \o PushIf(id \in ids, "Duplicate idea_id in snapshot: " \o id))

\* ids.has(value)
idsHas(ids, value) == value.t = "string" /\ value.v \in ids

\* JSON.stringify(edge): the properties that are strings, in their order
jsonStringifyEdge(edge) ==
  LET prop(name) == IF Get(edge, name).t = "string"
                    THEN "\"" \o name \o "\":\"" \o Get(edge, name).v \o "\"" ELSE ""
  IN "{" \o prop("from_idea_id") \o "," \o prop("to_idea_id") \o "," \o prop("type") \o "}"

\* an edge counted as unknown only when both of its ends are undeclared
unknownIdsBoth(ids, edge) ==
  ~idsHas(ids, Get(edge, "from_idea_id")) /\ ~idsHas(ids, Get(edge, "to_idea_id"))

\* !ids.has(edge.from_idea_id) || !ids.has(edge.to_idea_id)
unknownIds(ids, edge) ==
  ~idsHas(ids, Get(edge, "from_idea_id")) \/ ~idsHas(ids, Get(edge, "to_idea_id"))

\* the loop over payload.edges
RECURSIVE snapshotEdgesLoop(_, _, _, _)
snapshotEdgesLoop(items, i, ids, errors) ==
  IF i > Len(items) THEN errors
  ELSE IF notAnObject(items[i])
    THEN snapshotEdgesLoop(items, i + 1, ids,
           Append(errors, "SelfSnapshot.edges contains invalid item"))
  ELSE LET edge == items[i]
           unknown == unknownIds(ids, edge)
           badType == ~(Get(edge, "type").t = "string" /\ Get(edge, "type").v \in EDGE_TYPES)
       IN snapshotEdgesLoop(items, i + 1, ids,
            errors
            \o PushIf(unknown, "Edge references unknown idea ids: " \o jsonStringifyEdge(edge))
            \o PushIf(badType, "Invalid edge type: " \o Template(Get(edge, "type"))))

validateSnapshotPayload(payload) ==
  LET ideas == Get(payload, "ideas")
      edges0 == Get(payload, "edges")
      head == PushIf(notAnObject(payload), "SelfSnapshot payload is not an object")
              \o PushIf(Get(payload, "schema") # Str("afterlife.snapshot@1"),
                        "SelfSnapshot schema must be afterlife.snapshot@1")
              \o PushIf(Get(payload, "self_id").t # "string", "SelfSnapshot.self_id missing")
              \o PushIf(ideas.t # "array" \/ Len(ideas.items) = 0,
                        "SelfSnapshot.ideas missing/empty")
      afterIdeas == IF ideas.t = "array" THEN snapshotIdeasLoop(ideas.items, 1, {}, head)
                    ELSE [ids |-> {}, errors |-> head]
  IN IF edges0.t = "array"
     THEN snapshotEdgesLoop(edges0.items, 1, afterIdeas.ids, afterIdeas.errors)
     ELSE afterIdeas.errors

\* ok of a report wrongly withheld when there are warnings
reportOkNoWarnings(errors, warnings) == Len(errors) = 0 /\ Len(warnings) = 0

\* ok: errors.length === 0  (verifyTx)
verifyTxOk(errors, warnings) == Len(errors) = 0

\* the report of verifyTx for a transaction that is indexed (meta) and whose
\* payload was fetched
verifyTxReport(txId, meta, payload) ==
  LET tags == verifyTagsToMap(meta.tags)
      first == verifyTagFirst(tags, "Entity")
      entity == IF first = Undefined THEN "" ELSE first.v
      errors ==
        PushIf(~hasAfterlifeNamespace(tags),
               "Missing required Afterlife namespace tags (App-Name/App-Tag/Schema-Version)")
        \o PushIf(~Truthy(first), "Missing Entity tag")
        \o (IF entity = "SelfHead" THEN validateHeadPayload(payload)
            ELSE IF entity = "SelfSnapshot" THEN validateSnapshotPayload(payload)
            ELSE << >>)
      warnings ==
        IF entity \in {"SelfHead", "SelfSnapshot"} THEN << >>
        ELSE IF entity = "Idea"
          THEN PushIf(Get(payload, "schema") # Str("afterlife.idea@1"),
                      "Idea schema is not afterlife.idea@1")
               \o PushIf(Get(payload, "idea_id").t # "string", "Idea payload missing idea_id")
        ELSE << "Unknown or missing entity for tx " \o txId >>
  IN [ ok |-> verifyTxOk(errors, warnings),
       tx_id |-> txId,
       entity |-> IF Truthy(first) THEN first ELSE Null,
       tags |-> tags,
       errors |-> errors,
       warnings |-> warnings ]

\* if (!meta) return { ok: false, errors: [`Tx not found: ${txId}`], warnings: [] }
txNotFoundReport(txId) ==
  [ ok |-> FALSE, errors |-> << "Tx not found: " \o txId >>, warnings |-> << >> ]

\* errors.map((e) => `${prefix}${e}`)
prefixAll(prefix, messages) == [i \in 1..Len(messages) |-> prefix \o messages[i]]

\* if (!report.ok) errors.push(...report.errors.map((e) => `${prefix}${e}`))
stageErrors(prefix, report) ==
  IF ~report.ok THEN prefixAll(prefix, report.errors) ELSE << >>

\* ------------------------------------------------------------------------
\* Chain verifier (verify.mjs): the ledger and the network
\* ------------------------------------------------------------------------
NsTags(entity) ==
  Arr(<< Tag("App-Name", "ar//afterlife"), Tag("App-Tag", "afterlife"),
         Tag("Schema-Version", "1"), Tag("Entity", entity) >>)

\* Schema-Version is not "1"
BadNsTags(entity) ==
  Arr(<< Tag("App-Name", "ar//afterlife"), Tag("App-Tag", "afterlife"),
         Tag("Schema-Version", "2"), Tag("Entity", entity) >>)

\* the tag lists of the single checked transaction; Undefined: not indexed
SingleMetas ==
  { Undefined, NsTags("SelfHead"), NsTags("SelfSnapshot"), NsTags("Idea"), NsTags("Other"),
    BadNsTags("SelfSnapshot"),
    Arr(<< Tag("App-Name", "ar//afterlife"), Tag("App-Tag", "afterlife"),
           Tag("Schema-Version", "1") >>),
    Arr(<< Tag("App-Name", "ar//afterlife"), Tag("Schema-Version", "1"),
           Tag("Entity", "Idea") >>),
    Arr(<< Tag("App-Name", "other-app"), Tag("App-Name", "ar//afterlife"),
           Tag("App-Tag", "afterlife"), Tag("Schema-Version", "1"), Tag("Entity", "Idea") >>),
    Arr(<< Tag("App-Name", "ar//afterlife"), Tag("App-Name", "other-app"),
           Tag("App-Tag", "afterlife"), Tag("Schema-Version", "1"), Tag("Entity", "Idea") >>) }

HeadPayload(name, snapTx) ==
  Obj([schema |-> Str("afterlife.selfhead@1"), self_id |-> Str("S"),
       name |-> name, snapshot_tx |-> snapTx])

IdeaTx(k) == "i" \o ToString(k)

IdeaId(k) == "idea" \o ToString(k)

IdeaRef(ideaId, txId) == Obj([idea_id |-> Str(ideaId), tx_id |-> Str(txId)])

Edge(from, to, type) ==
  Obj([from_idea_id |-> Str(from), to_idea_id |-> Str(to), type |-> Str(type)])

SnapshotKinds == {"valid", "badedges", "dup", "notxid", "notarray"}

\* the ideas list of a snapshot of n ideas
SnapshotIdeas(kind, n) ==
  [k \in 1..n |->
     IF kind = "dup" /\ k = n /\ n > 1 THEN IdeaRef(IdeaId(1), IdeaTx(k))
     ELSE IF kind = "notxid" /\ k = 1 THEN Obj([idea_id |-> Str(IdeaId(k))])
     ELSE IdeaRef(IdeaId(k), IdeaTx(k))]

SnapshotPayload(kind, n) ==
  Obj([schema |-> Str("afterlife.snapshot@1"),
       self_id |-> Str("S"),
       ideas |-> IF kind = "notarray" THEN Undefined ELSE Arr(SnapshotIdeas(kind, n)),
       edges |-> IF kind = "badedges"
                 THEN Arr(<< Edge(IdeaId(1), "zz", "supports"), Edge("zz", IdeaId(1), "likes") >>)
                 ELSE IF n >= 1 /\ kind = "valid"
                 THEN Arr(<< Edge(IdeaId(1), IdeaId(n), "refines") >>)
                 ELSE Arr(<< >>)])

IdeaPayload == Obj([schema |-> Str("afterlife.idea@1"), idea_id |-> Str("idea1")])

\* the payloads of the single checked transaction; Undefined: no gateway has
\* the data; BadJson: the stored data is not JSON
SinglePayloads ==
  { Undefined, BadJson, Null, Str("text"),
    HeadPayload(Str("n"), Str("s1")), HeadPayload(Undefined, Str("s1")),
    HeadPayload(Num(7), Str("s1")), HeadPayload(Str("n"), Str("")),
    HeadPayload(Str(""), Undefined),
    IdeaPayload, Obj([schema |-> Str("note"), idea_id |-> Str("idea1")]),
    Obj([schema |-> Str("afterlife.idea@1")]) }
  \cup { SnapshotPayload(kind, 2) : kind \in SnapshotKinds }
  \cup { SnapshotPayload("valid", 0) }

LedgerTx(meta, payload) == [meta |-> meta, payload |-> payload]

SingleLedgers ==
  { [latest |-> Null, txs |-> [x \in {"t1"} |-> LedgerTx(m, pl)]] :
      m \in SingleMetas, pl \in SinglePayloads }

HeadVariants ==
  { LedgerTx(NsTags("SelfHead"), HeadPayload(Str("n"), Str("s1"))),
    LedgerTx(BadNsTags("SelfHead"), HeadPayload(Str("n"), Str("s1"))),
    LedgerTx(Undefined, HeadPayload(Str("n"), Str("s1"))),
    LedgerTx(NsTags("SelfHead"), HeadPayload(Undefined, Str("s1"))),
    LedgerTx(NsTags("SelfHead"), HeadPayload(Str("n"), Undefined)) }

SnapshotVariants(n) ==
  { LedgerTx(NsTags("SelfSnapshot"), SnapshotPayload(kind, n)) : kind \in SnapshotKinds }
  \cup { LedgerTx(NsTags("Idea"), SnapshotPayload("valid", n)),
         LedgerTx(NsTags("Idea"), SnapshotPayload("badedges", n)),
         LedgerTx(Undefined, SnapshotPayload("valid", n)) }

IdeaKinds == {"good", "notindexed", "nodata", "badns"}

IdeaVariant(kind) ==
  CASE kind = "good" -> LedgerTx(NsTags("Idea"), IdeaPayload)
    [] kind = "notindexed" -> LedgerTx(Undefined, IdeaPayload)
    [] kind = "nodata" -> LedgerTx(NsTags("Idea"), Undefined)
    [] kind = "badns" -> LedgerTx(BadNsTags("Idea"), IdeaPayload)

\* the node that the latest-head lookup finds: id and tags are queried
LatestNodes == { Null, [id |-> Str("h1"), tags |-> NsTags("SelfHead")] }

\* a head h1, a snapshot s1 and n ideas i1..in
ChainLedgers ==
  UNION { { [latest |-> l,
             txs |-> [x \in {"h1", "s1"} \cup { IdeaTx(k) : k \in 1..n } |->
                        IF x = "h1" THEN h
                        ELSE IF x = "s1" THEN sn
                        ELSE IdeaVariant(kinds[CHOOSE k \in 1..n : IdeaTx(k) = x])]] :
              l \in LatestNodes, h \in HeadVariants, sn \in SnapshotVariants(n),
              kinds \in [1..n -> IdeaKinds] } : n \in 0..MaxIdeas }

\* what one endpoint or gateway does with one request
NetBehaviours == {"reject", "http500", "answer"}

\* the error thrown inside the try block of postGraphql, Undefined when the
\* attempt returns json.data
postGraphqlAttemptError(endpoint, resp, attempt) ==
  IF resp.net = "reject" THEN Err("TypeError", "fetch failed", attempt)
  ELSE IF ~resOk(resp)
    THEN Err("Error", endpoint \o " HTTP " \o ToString(resp.status), attempt)
  ELSE IF resp.json = BadJson THEN Err("SyntaxError", "Unexpected token", attempt)
  ELSE IF hasErrors(resp.json)
    THEN Err("Error", joinMessages(resp.json.errors.items, 1), attempt)
  ELSE IF dataMissing(resp.json) THEN Err("Error", endpoint \o " missing data", attempt)
  ELSE Undefined

\* the response of an endpoint that behaves as beh and whose index holds data
endpointResponse(beh, data) ==
  IF beh = "reject" THEN [net |-> "reject", status |-> 0, json |-> Undefined]
  ELSE IF beh = "http500" THEN [net |-> "ok", status |-> 500, json |-> Undefined]
  ELSE [net |-> "ok", status |-> 200,
        json |-> [t |-> "object", errors |-> Undefined, data |-> data]]

\* postGraphql: the loop over GRAPHQL_ENDPOINTS
RECURSIVE postGraphqlLoop(_, _, _, _)
postGraphqlLoop(data, behs, i, lastErr) ==
  IF i > Len(GRAPHQL_ENDPOINTS)
  THEN [thrown |-> TRUE, value |-> IF lastErr # Undefined THEN lastErr
                                   ELSE Err("Error", "GraphQL failed", 0)]
  ELSE LET resp == endpointResponse(behs[i], data)
           err == postGraphqlAttemptError(GRAPHQL_ENDPOINTS[i], resp, i)
       IN IF err = Undefined THEN [thrown |-> FALSE, value |-> resp.json.data]
          ELSE postGraphqlLoop(data, behs, i + 1, err)

\* the outcomes of postGraphql for a query whose answer is data
postGraphql(data) ==
  { postGraphqlLoop(data, behs, 1, Undefined) :
      behs \in [1..Len(GRAPHQL_ENDPOINTS) -> NetBehaviours] }

\* the response of a gateway that behaves as beh for stored data payload
gatewayResponse(beh, payload) ==
  IF beh = "reject" THEN [net |-> "reject", status |-> 0, body |-> Undefined]
  ELSE IF beh = "http500" THEN [net |-> "ok", status |-> 500, body |-> Undefined]
  ELSE IF payload = Undefined THEN [net |-> "ok", status |-> 404, body |-> Undefined]
  ELSE [net |-> "ok", status |-> 200, body |-> payload]

\* the error thrown inside the try block of fetchJsonByTxId, Undefined when
\* the attempt returns JSON.parse(text)
fetchJsonAttemptError(url, resp, attempt) ==
  IF resp.net = "reject" THEN Err("TypeError", "fetch failed", attempt)
  ELSE IF ~resOk(resp) THEN Err("Error", url \o " HTTP " \o ToString(resp.status), attempt)
  ELSE IF resp.body = BadJson THEN Err("SyntaxError", "Unexpected token", attempt)
  ELSE Undefined

\* fetchJsonByTxId: the loop over GATEWAYS
RECURSIVE fetchJsonLoop(_, _, _, _, _)
fetchJsonLoop(txId, payload, behs, i, lastErr) ==
  IF i > Len(GATEWAYS)
  THEN [thrown |-> TRUE, value |-> IF lastErr # Undefined THEN lastErr
                                   ELSE Err("Error", "Failed to fetch tx " \o txId, 0)]
  ELSE LET resp == gatewayResponse(behs[i], payload)
           err == fetchJsonAttemptError(GATEWAYS[i] \o "/" \o txId, resp, i)
       IN IF err = Undefined THEN [thrown |-> FALSE, value |-> resp.body]
          ELSE fetchJsonLoop(txId, payload, behs, i + 1, err)

\* the outcomes of fetchJsonByTxId for a transaction whose stored data is payload
fetchJsonByTxId(txId, payload) ==
  { fetchJsonLoop(txId, payload, behs, 1, Undefined) :
      behs \in [1..Len(GATEWAYS) -> NetBehaviours] }

\* ------------------------------------------------------------------------
\* Chain verifier (verify.mjs): run, verifyTx, verifySelf
\* ------------------------------------------------------------------------
\* the stored meta (tag list) and data of a transaction id
metaOf(txId) ==
  IF txId \in DOMAIN ledger.txs THEN ledger.txs[txId].meta ELSE Undefined

payloadOf(txId) ==
  IF txId \in DOMAIN ledger.txs THEN ledger.txs[txId].payload ELSE Undefined

\* the answer of the index to the latest-head query
latestData ==
  TxData(IF ledger.latest = Null THEN << >> ELSE << [node |-> ledger.latest] >>)

\* the answer of the index to the TxMeta query for one id
metaData(txId) ==
  TxData(IF metaOf(txId) = Undefined THEN << >>
         ELSE << [node |-> [id |-> Str(txId), tags |-> metaOf(txId)]] >>)

\* data?.transactions?.edges?.[0]?.node || null
firstNodeOrNull(data) ==
  LET items == data.transactions.edges.items
  IN IF Len(items) > 0 THEN items[1].node ELSE Null

Call(fn, arg) == [fn |-> fn, arg |-> arg, stage |-> vStage]

Thrown(err, fn) == [err |-> err, stage |-> vStage, call |-> fn]

\* ok of the chain report wrongly withheld when there are warnings
verifySelfOkNoWarnings(errors, warnings) == Len(errors) = 0 /\ Len(warnings) = 0

\* ok: errors.length === 0  (verifySelf)
verifySelfOk(errors, warnings) == Len(errors) = 0

\* the report of a missing head wrongly given as ok
noHeadReportOk(selfId, warnings) ==
  [ ok |-> TRUE, self_id |-> selfId, errors |-> << >>, warnings |-> warnings ]

\* verifySelf, no latest head: { ok: false, self_id, errors: [...], warnings }
noHeadReport(selfId, warnings) ==
  [ ok |-> FALSE, self_id |-> selfId,
    errors |-> << "No discoverable SelfHead found for Self-Id" >>,
    warnings |-> warnings ]

\* ref.idea_id || ref.tx_id
ideaLabel(ref) ==
  IF Truthy(Get(ref, "idea_id")) THEN Template(Get(ref, "idea_id"))
  ELSE Template(Get(ref, "tx_id"))

InitVerify ==
  /\ \/ vMode = "tx" /\ vArg = "t1" /\ ledger \in SingleLedgers
     \/ vMode = "self" /\ vArg = "S" /\ ledger \in ChainLedgers
  /\ vpc = "run"
  /\ vStage = ""
  /\ vTx = ""
  /\ vMeta = Undefined
  /\ vTxReport = Undefined
  /\ vLatest = Undefined
  /\ vSnapshotTx = ""
  /\ vIdeaRefs = << >>
  /\ vIdx = 1
  /\ vIdeaReports = << >>
  /\ vErrors = << >>
  /\ vWarnings = << >>
  /\ vReport = Undefined
  /\ vThrown = Undefined
  /\ vCalls = << >>
  /\ vExit = -1
  /\ GroupIdle /\ TagsIdle /\ GqlIdle /\ FetchIdle /\ ParseIdle /\ PublishIdle /\ TurboIdle /\ OverrideIdle /\ SaveIdle /\ TimeoutIdle

\* run: const result = txId ? await verifyTx(txId) : ...
RunVerifyTx ==
  /\ vpc = "run"
  /\ vMode = "tx"
  /\ vStage' = "single"
  /\ vTx' = vArg
  /\ vpc' = "tx_meta"
  /\ UNCHANGED << ledger, vMode, vArg, vMeta, vTxReport, vLatest, vSnapshotTx,
                  vIdeaRefs, vIdx, vIdeaReports, vErrors, vWarnings, vReport,
                  vThrown, vCalls, vExit, notVerify >>

\* verifySelf: await getLatestHead(selfId), postGraphql throws
GetLatestHeadThrows ==
  /\ vpc = "run"
  /\ vMode = "self"
  /\ \E r \in postGraphql(latestData) :
       /\ r.thrown
       /\ vThrown' = [err |-> r.value, stage |-> "latest", call |-> "postGraphql"]
  /\ vStage' = "latest"
  /\ vCalls' = Append(vCalls, [fn |-> "postGraphql", arg |-> vArg, stage |-> "latest"])
  /\ vpc' = "thrown"
  /\ UNCHANGED << ledger, vMode, vArg, vTx, vMeta, vTxReport, vLatest,
                  vSnapshotTx, vIdeaRefs, vIdx, vIdeaReports, vErrors,
                  vWarnings, vReport, vExit, notVerify >>

\* verifySelf: if (!latest?.id) return { ok: false, ... }
NoHeadReturns ==
  /\ vpc = "run"
  /\ vMode = "self"
  /\ \E r \in postGraphql(latestData) :
       /\ ~r.thrown
       /\ ~Truthy(Get(Obj(firstNodeOrNull(r.value)), "id"))
       /\ vLatest' = firstNodeOrNull(r.value)
  /\ vStage' = "latest"
  /\ vCalls' = Append(vCalls, [fn |-> "postGraphql", arg |-> vArg, stage |-> "latest"])
  /\ vReport' = noHeadReport(vArg, vWarnings)
  /\ vpc' = "returned"
  /\ UNCHANGED << ledger, vMode, vArg, vTx, vMeta, vTxReport, vSnapshotTx,
                  vIdeaRefs, vIdx, vIdeaReports, vErrors, vWarnings, vThrown,
                  vExit, notVerify >>

\* verifySelf: a latest head is found; const head = await verifyTx(latest.id)
HeadFound ==
  /\ vpc = "run"
  /\ vMode = "self"
  /\ \E r \in postGraphql(latestData) :
       /\ ~r.thrown
       /\ Truthy(Get(Obj(firstNodeOrNull(r.value)), "id"))
       /\ vLatest' = firstNodeOrNull(r.value)
       /\ vTx' = firstNodeOrNull(r.value).id.v
  /\ vStage' = "head"
  /\ vCalls' = Append(vCalls, [fn |-> "postGraphql", arg |-> vArg, stage |-> "latest"])
  /\ vpc' = "tx_meta"
  /\ UNCHANGED << ledger, vMode, vArg, vMeta, vTxReport, vSnapshotTx,
                  vIdeaRefs, vIdx, vIdeaReports, vErrors, vWarnings, vReport,
                  vThrown, vExit, notVerify >>

\* verifyTx: await getTxMeta([txId]), postGraphql throws
VerifyTxMetaThrows ==
  /\ vpc = "tx_meta"
  /\ \E r \in postGraphql(metaData(vTx)) :
       /\ r.thrown
       /\ vThrown' = Thrown(r.value, "postGraphql")
  /\ vCalls' = Append(vCalls, Call("postGraphql", vTx))
  /\ vpc' = "thrown"
  /\ UNCHANGED << ledger, vMode, vArg, vStage, vTx, vMeta, vTxReport, vLatest,
                  vSnapshotTx, vIdeaRefs, vIdx, vIdeaReports, vErrors,
                  vWarnings, vReport, vExit, notVerify >>

\* verifyTx: if (!meta) return { ok: false, errors: [`Tx not found: ...`] }
VerifyTxNotFound ==
  /\ vpc = "tx_meta"
  /\ \E r \in postGraphql(metaData(vTx)) :
       /\ ~r.thrown
       /\ Len(r.value.transactions.edges.items) = 0
  /\ vCalls' = Append(vCalls, Call("postGraphql", vTx))
  /\ vTxReport' = txNotFoundReport(vTx)
  /\ vpc' = "tx_done"
  /\ UNCHANGED << ledger, vMode, vArg, vStage, vTx, vMeta, vLatest,
                  vSnapshotTx, vIdeaRefs, vIdx, vIdeaReports, vErrors,
                  vWarnings, vReport, vThrown, vExit, notVerify >>

\* verifyTx: const [meta] = await getTxMeta([txId]) with a node
VerifyTxMetaFound ==
  /\ vpc = "tx_meta"
  /\ \E r \in postGraphql(metaData(vTx)) :
       /\ ~r.thrown
       /\ Len(r.value.transactions.edges.items) > 0
       /\ vMeta' = r.value.transactions.edges.items[1].node
  /\ vCalls' = Append(vCalls, Call("postGraphql", vTx))
  /\ vpc' = "tx_payload"
  /\ UNCHANGED << ledger, vMode, vArg, vStage, vTx, vTxReport, vLatest,
                  vSnapshotTx, vIdeaRefs, vIdx, vIdeaReports, vErrors,
                  vWarnings, vReport, vThrown, vExit, notVerify >>

\* verifyTx: const payload = await fetchJsonByTxId(txId) throws
VerifyTxFetchThrows ==
  /\ vpc = "tx_payload"
  /\ \E r \in fetchJsonByTxId(vTx, payloadOf(vTx)) :
       /\ r.thrown
       /\ vThrown' = Thrown(r.value, "fetchJsonByTxId")
  /\ vCalls' = Append(vCalls, Call("fetchJsonByTxId", vTx))
  /\ vpc' = "thrown"
  /\ UNCHANGED << ledger, vMode, vArg, vStage, vTx, vMeta, vTxReport, vLatest,
                  vSnapshotTx, vIdeaRefs, vIdx, vIdeaReports, vErrors,
                  vWarnings, vReport, vExit, notVerify >>

\* verifyTx: the payload is fetched, the checks run and the report is returned
VerifyTxChecks ==
  /\ vpc = "tx_payload"
  /\ \E r \in fetchJsonByTxId(vTx, payloadOf(vTx)) :
       /\ ~r.thrown
       /\ vTxReport' = verifyTxReport(vTx, vMeta, r.value)
  /\ vCalls' = Append(vCalls, Call("fetchJsonByTxId", vTx))
  /\ vpc' = "tx_done"
  /\ UNCHANGED << ledger, vMode, vArg, vStage, vTx, vMeta, vLatest,
                  vSnapshotTx, vIdeaRefs, vIdx, vIdeaReports, vErrors,
                  vWarnings, vReport, vThrown, vExit, notVerify >>

\* run: result = await verifyTx(txId)
SingleChecked ==
  /\ vpc = "tx_done"
  /\ vStage = "single"
  /\ vReport' = vTxReport
  /\ vpc' = "returned"
  /\ UNCHANGED << ledger, vMode, vArg, vStage, vTx, vMeta, vTxReport, vLatest,
                  vSnapshotTx, vIdeaRefs, vIdx, vIdeaReports, vErrors,
                  vWarnings, vThrown, vCalls, vExit, notVerify >>

\* verifySelf: if (!head.ok) errors.push(...); warnings.push(...)
HeadChecked ==
  /\ vpc = "tx_done"
  /\ vStage = "head"
  /\ vErrors' = vErrors \o stageErrors("Head: ", vTxReport)
  /\ vWarnings' = vWarnings \o prefixAll("Head: ", vTxReport.warnings)
  /\ vpc' = "head_payload"
  /\ UNCHANGED << ledger, vMode, vArg, vStage, vTx, vMeta, vTxReport, vLatest,
                  vSnapshotTx, vIdeaRefs, vIdx, vIdeaReports, vReport, vThrown,
                  vCalls, vExit, notVerify >>

\* verifySelf: const headPayload = await fetchJsonByTxId(latest.id) throws
HeadPayloadThrows ==
  /\ vpc = "head_payload"
  /\ \E r \in fetchJsonByTxId(vLatest.id.v, payloadOf(vLatest.id.v)) :
       /\ r.thrown
       /\ vThrown' = Thrown(r.value, "fetchJsonByTxId")
  /\ vCalls' = Append(vCalls, Call("fetchJsonByTxId", vLatest.id.v))
  /\ vpc' = "thrown"
  /\ UNCHANGED << ledger, vMode, vArg, vStage, vTx, vMeta, vTxReport, vLatest,
                  vSnapshotTx, vIdeaRefs, vIdx, vIdeaReports, vErrors,
                  vWarnings, vReport, vExit, notVerify >>

\* verifySelf: if (typeof snapshotTx !== "string") { errors.push(...); return ... }
HeadPayloadNoSnapshot ==
  /\ vpc = "head_payload"
  /\ \E r \in fetchJsonByTxId(vLatest.id.v, payloadOf(vLatest.id.v)) :
       /\ ~r.thrown
       /\ Get(r.value, "snapshot_tx").t # "string"
  /\ vCalls' = Append(vCalls, Call("fetchJsonByTxId", vLatest.id.v))
  /\ vErrors' = Append(vErrors, "Head payload missing snapshot_tx")
  /\ vReport' = [ ok |-> FALSE, self_id |-> vArg, head_tx |-> vLatest.id,
                  errors |-> Append(vErrors, "Head payload missing snapshot_tx"),
                  warnings |-> vWarnings ]
  /\ vpc' = "returned"
  /\ UNCHANGED << ledger, vMode, vArg, vStage, vTx, vMeta, vTxReport, vLatest,
                  vSnapshotTx, vIdeaRefs, vIdx, vIdeaReports, vWarnings,
                  vThrown, vExit, notVerify >>

\* verifySelf: snapshot_tx is a string; const snapshot = await verifyTx(snapshotTx)
HeadPayloadOk ==
  /\ vpc = "head_payload"
  /\ \E r \in fetchJsonByTxId(vLatest.id.v, payloadOf(vLatest.id.v)) :
       /\ ~r.thrown
       /\ Get(r.value, "snapshot_tx").t = "string"
       /\ vSnapshotTx' = Get(r.value, "snapshot_tx").v
       /\ vTx' = Get(r.value, "snapshot_tx").v
  /\ vCalls' = Append(vCalls, Call("fetchJsonByTxId", vLatest.id.v))
  /\ vStage' = "snapshot"
  /\ vpc' = "tx_meta"
  /\ UNCHANGED << ledger, vMode, vArg, vMeta, vTxReport, vLatest, vIdeaRefs,
                  vIdx, vIdeaReports, vErrors, vWarnings, vReport, vThrown,
                  vExit, notVerify >>

\* verifySelf: if (!snapshot.ok) errors.push(...); warnings.push(...)
SnapshotChecked ==
  /\ vpc = "tx_done"
  /\ vStage = "snapshot"
  /\ vErrors' = vErrors \o stageErrors("Snapshot: ", vTxReport)
  /\ vWarnings' = vWarnings \o prefixAll("Snapshot: ", vTxReport.warnings)
  /\ vpc' = "snapshot_payload"
  /\ UNCHANGED << ledger, vMode, vArg, vStage, vTx, vMeta, vTxReport, vLatest,
                  vSnapshotTx, vIdeaRefs, vIdx, vIdeaReports, vReport, vThrown,
                  vCalls, vExit, notVerify >>

\* verifySelf: const snapshotPayload = await fetchJsonByTxId(snapshotTx) throws
SnapshotPayloadThrows ==
  /\ vpc = "snapshot_payload"
  /\ \E r \in fetchJsonByTxId(vSnapshotTx, payloadOf(vSnapshotTx)) :
       /\ r.thrown
       /\ vThrown' = Thrown(r.value, "fetchJsonByTxId")
  /\ vCalls' = Append(vCalls, Call("fetchJsonByTxId", vSnapshotTx))
  /\ vpc' = "thrown"
  /\ UNCHANGED << ledger, vMode, vArg, vStage, vTx, vMeta, vTxReport, vLatest,
                  vSnapshotTx, vIdeaRefs, vIdx, vIdeaReports, vErrors,
                  vWarnings, vReport, vExit, notVerify >>

\* verifySelf: const ideaRefs = Array.isArray(snapshotPayload?.ideas) ? ... : []
SnapshotPayloadOk ==
  /\ vpc = "snapshot_payload"
  /\ \E r \in fetchJsonByTxId(vSnapshotTx, payloadOf(vSnapshotTx)) :
       /\ ~r.thrown
       /\ vIdeaRefs' = IF Get(r.value, "ideas").t = "array" THEN Get(r.value, "ideas").items
                       ELSE << >>
  /\ vCalls' = Append(vCalls, Call("fetchJsonByTxId", vSnapshotTx))
  /\ vStage' = "idea"
  /\ vIdx' = 1
  /\ vpc' = "ideas"
  /\ UNCHANGED << ledger, vMode, vArg, vTx, vMeta, vTxReport, vLatest,
                  vSnapshotTx, vIdeaReports, vErrors, vWarnings, vReport,
                  vThrown, vExit, notVerify >>

\* verifySelf: if (!ref?.tx_id) continue;
IdeaSkip ==
  /\ vpc = "ideas"
  /\ vIdx <= Len(vIdeaRefs)
  /\ ~Truthy(Get(vIdeaRefs[vIdx], "tx_id"))
  /\ vIdx' = vIdx + 1
  /\ UNCHANGED << ledger, vMode, vArg, vpc, vStage, vTx, vMeta, vTxReport,
                  vLatest, vSnapshotTx, vIdeaRefs, vIdeaReports, vErrors,
                  vWarnings, vReport, vThrown, vCalls, vExit, notVerify >>

\* verifySelf: const report = await verifyTx(ref.tx_id)
IdeaCall ==
  /\ vpc = "ideas"
  /\ vIdx <= Len(vIdeaRefs)
  /\ Truthy(Get(vIdeaRefs[vIdx], "tx_id"))
  /\ vTx' = Template(Get(vIdeaRefs[vIdx], "tx_id"))
  /\ vpc' = "tx_meta"
  /\ UNCHANGED << ledger, vMode, vArg, vStage, vMeta, vTxReport, vLatest,
                  vSnapshotTx, vIdeaRefs, vIdx, vIdeaReports, vErrors,
                  vWarnings, vReport, vThrown, vCalls, vExit, notVerify >>

\* verifySelf: errors and warnings of the idea are added, ideaReports.push(...)
IdeaChecked ==
  /\ vpc = "tx_done"
  /\ vStage = "idea"
  /\ LET ref == vIdeaRefs[vIdx]
         prefix == "Idea " \o ideaLabel(ref) \o ": "
     IN /\ vErrors' = vErrors \o stageErrors(prefix, vTxReport)
        /\ vWarnings' = vWarnings \o prefixAll(prefix, vTxReport.warnings)
        /\ vIdeaReports' = Append(vIdeaReports,
             [ idea_id |-> IF Truthy(Get(ref, "idea_id")) THEN Get(ref, "idea_id") ELSE Null,
               tx_id |-> Get(ref, "tx_id"),
               ok |-> vTxReport.ok,
               errors |-> vTxReport.errors,
               warnings |-> vTxReport.warnings ])
  /\ vIdx' = vIdx + 1
  /\ vpc' = "ideas"
  /\ UNCHANGED << ledger, vMode, vArg, vStage, vTx, vMeta, vTxReport, vLatest,
                  vSnapshotTx, vIdeaRefs, vReport, vThrown, vCalls, vExit,
                  notVerify >>

\* verifySelf: return { ok: errors.length === 0, ... }
VerifySelfReturns ==
  /\ vpc = "ideas"
  /\ vIdx > Len(vIdeaRefs)
  /\ vReport' = [ ok |-> verifySelfOk(vErrors, vWarnings),
                  self_id |-> vArg,
                  discoverable |-> Truthy(vLatest.id),
                  head_tx |-> vLatest.id,
                  snapshot_tx |-> vSnapshotTx,
                  idea_count |-> Len(vIdeaReports),
                  idea_reports |-> vIdeaReports,
                  errors |-> vErrors,
                  warnings |-> vWarnings ]
  /\ vpc' = "returned"
  /\ UNCHANGED << ledger, vMode, vArg, vStage, vTx, vMeta, vTxReport, vLatest,
                  vSnapshotTx, vIdeaRefs, vIdx, vIdeaReports, vErrors,
                  vWarnings, vThrown, vCalls, vExit, notVerify >>

\* run: the result is written; if (!result.ok) process.exit(2)
RunPrints ==
  /\ vpc = "returned"
  /\ vExit = -1
  /\ vExit' = IF vReport.ok THEN 0 ELSE 2
  /\ UNCHANGED << ledger, vMode, vArg, vpc, vStage, vTx, vMeta, vTxReport,
                  vLatest, vSnapshotTx, vIdeaRefs, vIdx, vIdeaReports, vErrors,
                  vWarnings, vReport, vThrown, vCalls, notVerify >>

\* run().catch: { ok: false, error } is written; process.exit(1)
RunCatches ==
  /\ vpc = "thrown"
  /\ vExit = -1
  /\ vExit' = 1
  /\ UNCHANGED << ledger, vMode, vArg, vpc, vStage, vTx, vMeta, vTxReport,
                  vLatest, vSnapshotTx, vIdeaRefs, vIdx, vIdeaReports, vErrors,
                  vWarnings, vReport, vThrown, vCalls, notVerify >>

NextVerify ==
  \/ RunVerifyTx
  \/ GetLatestHeadThrows
  \/ NoHeadReturns
  \/ HeadFound
  \/ VerifyTxMetaThrows
  \/ VerifyTxNotFound
  \/ VerifyTxMetaFound
  \/ VerifyTxFetchThrows
  \/ VerifyTxChecks
  \/ SingleChecked
  \/ HeadChecked
  \/ HeadPayloadThrows
  \/ HeadPayloadNoSnapshot
  \/ HeadPayloadOk
  \/ SnapshotChecked
  \/ SnapshotPayloadThrows
  \/ SnapshotPayloadOk
  \/ IdeaSkip
  \/ IdeaCall
  \/ IdeaChecked
  \/ VerifySelfReturns
  \/ RunPrints
  \/ RunCatches

SpecVerify == InitVerify /\ [][NextVerify]_vars

\* ------------------------------------------------------------------------
\* Document parsers (self.ts): parseSelfHead, parseSelfSnapshot
\* ------------------------------------------------------------------------
\* typeof value === "object" && value !== null
isRecord(value) == value.t \in {"object", "array"}

\* const v = obj[key]; return typeof v === "string" ? v : undefined
getString(obj, key) ==
  LET v == Get(obj, key) IN IF v.t = "string" THEN v ELSE Undefined

ParseOk(value) == [ok |-> TRUE, value |-> value]

ParseFail(error) == [ok |-> FALSE, error |-> error]

\* schema ?? "missing"
schemaOrMissing(schema) == IF schema = Undefined THEN "missing" ELSE schema.v

\* fork_of kept when only one of its two fields is a string
parseForkOfEither(forkObj) ==
  IF isRecord(forkObj)
       /\ (Truthy(getString(forkObj, "source_self_id"))
             \/ Truthy(getString(forkObj, "source_head_tx")))
  THEN Obj([source_self_id |-> getString(forkObj, "source_self_id"),
            source_head_tx |-> getString(forkObj, "source_head_tx")])
  ELSE Undefined

\* fork_of of the parsed head
parseForkOf(forkObj) ==
  IF isRecord(forkObj)
       /\ Truthy(getString(forkObj, "source_self_id"))
       /\ Truthy(getString(forkObj, "source_head_tx"))
  THEN Obj([source_self_id |-> getString(forkObj, "source_self_id"),
            source_head_tx |-> getString(forkObj, "source_head_tx")])
  ELSE Undefined

\* links of the parsed head
parseLinks(linksObj) ==
  IF isRecord(linksObj)
       /\ (Truthy(getString(linksObj, "repo")) \/ Truthy(getString(linksObj, "homepage")))
  THEN Obj([repo |-> getString(linksObj, "repo"),
            homepage |-> getString(linksObj, "homepage")])
  ELSE Undefined

\* the name tested before the self_id
parseSelfHeadNameFirst(json) ==
  IF ~isRecord(json) THEN ParseFail("SelfHead is not an object")
  ELSE IF getString(json, "schema") # Str("afterlife.selfhead@1")
    THEN ParseFail("Unexpected SelfHead schema: "
                   \o schemaOrMissing(getString(json, "schema")))
  ELSE IF ~Truthy(getString(json, "name")) THEN ParseFail("SelfHead.name missing")
  ELSE IF ~Truthy(getString(json, "self_id")) THEN ParseFail("SelfHead.self_id missing")
  ELSE IF ~Truthy(getString(json, "snapshot_tx"))
    THEN ParseFail("SelfHead.snapshot_tx missing")
  ELSE ParseOk(Obj([schema |-> Str("afterlife.selfhead@1"),
                    self_id |-> getString(json, "self_id"),
                    name |-> getString(json, "name"),
                    snapshot_tx |-> getString(json, "snapshot_tx"),
                    description |-> getString(json, "description"),
                    fork_of |-> parseForkOf(Get(json, "fork_of")),
                    owner_address |-> getString(json, "owner_address"),
                    updated_at |-> getString(json, "updated_at"),
                    links |-> parseLinks(Get(json, "links"))]))

\* export function parseSelfHead(json: unknown): ParseResult<SelfHead>
parseSelfHead(json) ==
  IF ~isRecord(json) THEN ParseFail("SelfHead is not an object")
  ELSE IF getString(json, "schema") # Str("afterlife.selfhead@1")
    THEN ParseFail("Unexpected SelfHead schema: "
                   \o schemaOrMissing(getString(json, "schema")))
  ELSE IF ~Truthy(getString(json, "self_id")) THEN ParseFail("SelfHead.self_id missing")
  ELSE IF ~Truthy(getString(json, "name")) THEN ParseFail("SelfHead.name missing")
  ELSE IF ~Truthy(getString(json, "snapshot_tx"))
    THEN ParseFail("SelfHead.snapshot_tx missing")
  ELSE ParseOk(Obj([schema |-> Str("afterlife.selfhead@1"),
                    self_id |-> getString(json, "self_id"),
                    name |-> getString(json, "name"),
                    snapshot_tx |-> getString(json, "snapshot_tx"),
                    description |-> getString(json, "description"),
                    fork_of |-> parseForkOf(Get(json, "fork_of")),
                    owner_address |-> getString(json, "owner_address"),
                    updated_at |-> getString(json, "updated_at"),
                    links |-> parseLinks(Get(json, "links"))]))

\* the test of the ideas loop: a record whose idea_id and tx_id are
\* non-empty strings
keepsIdea(idea) ==
  /\ isRecord(idea)
  /\ Truthy(getString(idea, "idea_id"))
  /\ Truthy(getString(idea, "tx_id"))

\* the ideas pushed by the loop over ideasRaw
parseIdeas(ideasRaw) ==
  LET kept == SelectSeq(ideasRaw, keepsIdea)
  IN [i \in 1..Len(kept) |->
        Obj([idea_id |-> getString(kept[i], "idea_id"),
             tx_id |-> getString(kept[i], "tx_id")])]

\* the test of the edges loop: a record whose three properties are
\* non-empty strings and whose type is allowed
keepsEdge(edge) ==
  /\ isRecord(edge)
  /\ Truthy(getString(edge, "from_idea_id"))
  /\ Truthy(getString(edge, "to_idea_id"))
  /\ Truthy(getString(edge, "type"))
  /\ getString(edge, "type").v \in EDGE_TYPES

\* the loop over edgesRaw left at the first entry that is not kept
parseEdgesUntilBad(edgesRaw) ==
  LET bad == { i \in 1..Len(edgesRaw) : ~keepsEdge(edgesRaw[i]) }
      n == IF bad = {} THEN Len(edgesRaw)
           ELSE (CHOOSE i \in bad : \A j \in bad : i <= j) - 1
  IN [i \in 1..n |->
        Obj([from_idea_id |-> getString(edgesRaw[i], "from_idea_id"),
             to_idea_id |-> getString(edgesRaw[i], "to_idea_id"),
             type |-> getString(edgesRaw[i], "type")])]

\* the edges pushed by the loop over edgesRaw
parseEdges(edgesRaw) ==
  LET kept == SelectSeq(edgesRaw, keepsEdge)
  IN [i \in 1..Len(kept) |->
        Obj([from_idea_id |-> getString(kept[i], "from_idea_id"),
             to_idea_id |-> getString(kept[i], "to_idea_id"),
             type |-> getString(kept[i], "type")])]

parseSelfSnapshot(json) ==
  IF ~isRecord(json) THEN ParseFail("SelfSnapshot is not an object")
  ELSE IF getString(json, "schema") # Str("afterlife.snapshot@1")
    THEN ParseFail("Unexpected SelfSnapshot schema: "
                   \o schemaOrMissing(getString(json, "schema")))
  ELSE IF ~Truthy(getString(json, "self_id")) THEN ParseFail("SelfSnapshot.self_id missing")
  ELSE IF Get(json, "ideas").t # "array" THEN ParseFail("SelfSnapshot.ideas missing")
  ELSE IF Len(parseIdeas(Get(json, "ideas").items)) = 0
    THEN ParseFail("SelfSnapshot.ideas empty/invalid")
  ELSE ParseOk(Obj([schema |-> Str("afterlife.snapshot@1"),
                    self_id |-> getString(json, "self_id"),
                    parent_snapshot_tx |->
                      IF getString(json, "parent_snapshot_tx") = Undefined THEN Null
                      ELSE getString(json, "parent_snapshot_tx"),
                    ideas |-> Arr(parseIdeas(Get(json, "ideas").items)),
                    edges |-> IF Get(json, "edges").t = "array"
                              THEN Arr(parseEdges(Get(json, "edges").items))
                              ELSE Undefined,
                    notes |-> getString(json, "notes"),
                    created_at |-> getString(json, "created_at")]))

\* ------------------------------------------------------------------------
\* Documents given to the parsers and to the validators of verify.mjs
\* ------------------------------------------------------------------------
\* the values a required string property may have
FieldValues == { Undefined, Str(""), Str("x"), Num(7) }

ForkValues ==
  { Undefined,
    Obj([source_self_id |-> Str("S0"), source_head_tx |-> Str("h0")]),
    Obj([source_self_id |-> Str("S0")]) }

HeadJson(schema, selfId, name, snapTx, forkOf) ==
  Obj([schema |-> schema, self_id |-> selfId, name |-> name,
       snapshot_tx |-> snapTx, fork_of |-> forkOf])

\* the values the optional links and description of a head may have
LinksValues ==
  { Undefined, Str("https://repo"), Obj([repo |-> Str("https://repo")]),
    Obj([repo |-> Num(7)]) }

DescriptionValues == { Undefined, Str("d"), Num(7) }

\* a head with valid required fields and the optional fields given
HeadJsonWith(forkOf, links, description) ==
  Obj([schema |-> Str("afterlife.selfhead@1"), self_id |-> Str("S"), name |-> Str("n"),
       snapshot_tx |-> Str("s1"), fork_of |-> forkOf, links |-> links,
       description |-> description])

HeadJsons ==
  { HeadJson(Str("afterlife.selfhead@1"), s, n, t, fk) :
      s \in FieldValues, n \in FieldValues, t \in FieldValues, fk \in ForkValues }
  \cup { HeadJsonWith(fk, ln, ds) :
           fk \in ForkValues \cup { Str("S0") }, ln \in LinksValues, ds \in DescriptionValues }
  \cup { HeadJson(sc, Str("x"), Str("x"), Str("x"), Undefined) :
           sc \in { Undefined, Str("afterlife.snapshot@1") } }

\* the entries an ideas list may hold: two ideas, a second entry for idea1,
\* an entry without tx_id, null
IdeaItems ==
  { IdeaRef("idea1", "i1"), IdeaRef("idea2", "i2"), IdeaRef("idea1", "i3"),
    Obj([idea_id |-> Str("idea3")]), Null }

\* the entries an edges list may hold: a good edge, an edge to an id that
\* no idea has, an edge of an unknown type, an edge without to_idea_id, null
EdgeItems ==
  { Edge("idea1", "idea2", "supports"), Edge("idea1", "zz", "refines"),
    Edge("idea2", "idea1", "likes"),
    Obj([from_idea_id |-> Str("idea1"), type |-> Str("supports")]), Null }

ItemLists(S) == UNION { [1..n -> S] : n \in 0..MaxItems }

SnapshotJson(schema, selfId, ideas, edges0) ==
  Obj([schema |-> schema, self_id |-> selfId, ideas |-> ideas, edges |-> edges0])

SnapshotJsons ==
  { SnapshotJson(Str("afterlife.snapshot@1"), Str("S"), Arr(is), es) :
      is \in ItemLists(IdeaItems),
      es \in { Arr(l) : l \in ItemLists(EdgeItems) } \cup { Undefined } }
  \cup { SnapshotJson(sc, s, is, Undefined) :
           sc \in { Str("afterlife.snapshot@1"), Str("afterlife.selfhead@1") },
           s \in { Str("S"), Str(""), Undefined },
           is \in { Undefined, Arr(<< IdeaRef("idea1", "i1") >>) } }

ParseJsons == HeadJsons \cup SnapshotJsons \cup { Null, Str("text"), Arr(<< >>) }

InitParse ==
  /\ pJson \in ParseJsons
  /\ pFn = ""
  /\ pOut = Undefined
  /\ ppc = "ready"
  /\ GroupIdle /\ TagsIdle /\ GqlIdle /\ FetchIdle /\ VerifyIdle /\ PublishIdle /\ TurboIdle /\ OverrideIdle /\ SaveIdle /\ TimeoutIdle

ParseSelfHead ==
  /\ ppc = "ready"
  /\ pFn' = "parseSelfHead"
  /\ pOut' = parseSelfHead(pJson)
  /\ ppc' = "done"
  /\ UNCHANGED << pJson, notParse >>

ParseSelfSnapshot ==
  /\ ppc = "ready"
  /\ pFn' = "parseSelfSnapshot"
  /\ pOut' = parseSelfSnapshot(pJson)
  /\ ppc' = "done"
  /\ UNCHANGED << pJson, notParse >>

ValidateHeadPayload ==
  /\ ppc = "ready"
  /\ pFn' = "validateHeadPayload"
  /\ pOut' = [errors |-> validateHeadPayload(pJson)]
  /\ ppc' = "done"
  /\ UNCHANGED << pJson, notParse >>

ValidateSnapshotPayload ==
  /\ ppc = "ready"
  /\ pFn' = "validateSnapshotPayload"
  /\ pOut' = [errors |-> validateSnapshotPayload(pJson)]
  /\ ppc' = "done"
  /\ UNCHANGED << pJson, notParse >>

\* verifyTx on a transaction that is indexed with the namespace tags and
\* whose data is pJson: the checks after the two fetches
VerifyTxOfPayload ==
  /\ ppc = "ready"
  /\ \E entity \in {"SelfHead", "SelfSnapshot"} :
       pOut' = verifyTxReport("t1", [id |-> Str("t1"), tags |-> NsTags(entity)], pJson)
  /\ pFn' = "verifyTx"
  /\ ppc' = "done"
  /\ UNCHANGED << pJson, notParse >>

NextParse ==
  \/ ParseSelfHead
  \/ ParseSelfSnapshot
  \/ ValidateHeadPayload
  \/ ValidateSnapshotPayload
  \/ VerifyTxOfPayload

SpecParse == InitParse /\ [][NextParse]_vars

\* ------------------------------------------------------------------------
\* Publisher (publish-self.mjs): validateInput, tagsForEntity, payloads
\* ------------------------------------------------------------------------
\* the strings of the model that consist of white space only
BlankStrings == { "", " " }

\* s.trim(): the only other string of the model that begins or ends with
\* white space is " https://my.gw "
trim(s) ==
  IF s \in BlankStrings THEN ""
  ELSE IF s = " https://my.gw " THEN "https://my.gw"
  ELSE s

\* asBool(v, fallback): v == null ? fallback : String(v).toLowerCase() === "true"
asBool(v, fallback) ==
  IF v.t \in {"null", "undefined"} THEN fallback
  ELSE IF v.t = "bool" THEN v.b
  ELSE v.t = "string" /\ v.v \in {"true", "True", "TRUE"}

\* a JSON boolean
Bool(b) == [t |-> "bool", b |-> b]

\* typeof v !== "string": a string of white space is taken
noString(v) == v.t # "string"

\* typeof v !== "string" || !v.trim()
blankOrNoString(v) == v.t # "string" \/ trim(v.v) = ""

\* the loop of validateInput over input.ideas: the message of the first
\* throw ("" when none) and the set seen
RECURSIVE validateIdeasLoop(_, _, _)
validateIdeasLoop(items, i, seen) ==
  IF i > Len(items) THEN [error |-> "", seen |-> seen]
  ELSE LET idea == items[i]
           id == Get(idea, "idea_id")
       IN IF notAnObject(idea) THEN [error |-> "Each idea must be an object", seen |-> seen]
          ELSE IF blankOrNoString(id)
            THEN [error |-> "Each idea requires idea_id", seen |-> seen]
          ELSE IF id.v \in seen
            THEN [error |-> "Duplicate idea_id: " \o id.v, seen |-> seen]
          ELSE IF ~Truthy(Get(idea, "tx_id"))
                    /\ Get(idea, "content").t \in {"null", "undefined"}
            THEN [error |-> "Idea " \o id.v \o " must include tx_id or content",
                  seen |-> seen]
          ELSE validateIdeasLoop(items, i + 1, seen \cup {id.v})

\* the loop of validateInput over input.edges: the message of the first throw
RECURSIVE validateEdgesLoop(_, _, _)
validateEdgesLoop(items, i, seen) ==
  IF i > Len(items) THEN ""
  ELSE LET edge == items[i]
       IN IF notAnObject(edge) THEN "Edge entries must be objects"
          ELSE IF ~idsHas(seen, Get(edge, "from_idea_id"))
                    \/ ~idsHas(seen, Get(edge, "to_idea_id"))
            THEN "Edge references unknown idea id: " \o jsonStringifyEdge(edge)
          ELSE IF ~(Get(edge, "type").t = "string" /\ Get(edge, "type").v \in EDGE_TYPES)
            THEN "Invalid edge type '" \o Template(Get(edge, "type")) \o "'"
          ELSE validateEdgesLoop(items, i + 1, seen)

\* validateInput: the message of the error it throws, "" when it returns
validateInput(in) ==
  IF notAnObject(in) THEN "Input must be a JSON object"
  ELSE IF blankOrNoString(Get(in, "self_id")) THEN "input.self_id is required"
  ELSE IF blankOrNoString(Get(in, "name")) THEN "input.name is required"
  ELSE IF Get(in, "ideas").t # "array" \/ Len(Get(in, "ideas").items) = 0
    THEN "input.ideas must be a non-empty array"
  ELSE LET ideas == validateIdeasLoop(Get(in, "ideas").items, 1, {})
       IN IF ideas.error # "" THEN ideas.error
          ELSE IF Get(in, "edges").t = "array"
            THEN validateEdgesLoop(Get(in, "edges").items, 1, ideas.seen)
          ELSE ""

\* { ...a, ...b }: the properties of b replace those of a
Spread(a, b) ==
  [n \in DOMAIN a \cup DOMAIN b |-> IF n \in DOMAIN b THEN b[n] ELSE a[n]]

\* {}
NoProps == [n \in {} |-> Undefined]

\* ...(v && typeof v === "object" ? v : {})
propsOf(v) == IF v.t = "object" THEN v.f ELSE NoProps

\* the tags object built first-to-last; extra wins over the fixed tags
tagsForEntity(entity, in, extra) ==
  Spread([n \in {"App-Name", "App-Tag", "Schema-Version", "Entity", "Self-Id"} |->
            CASE n = "App-Name" -> Str("ar//afterlife")
              [] n = "App-Tag" -> Str("afterlife")
              [] n = "Schema-Version" -> Str("1")
              [] n = "Entity" -> Str(entity)
              [] n = "Self-Id" -> Get(in, "self_id")],
         extra)

\* the extra tags of an idea upload
ideaExtraTags(idea) ==
  Spread(Spread([n \in {"Idea-Id"} |-> Get(idea, "idea_id")],
                IF Truthy(Get(idea, "supersedes_tx"))
                THEN [n \in {"Supersedes-Tx"} |-> Get(idea, "supersedes_tx")]
                ELSE NoProps),
         propsOf(Get(idea, "tags")))

\* the extra tags of the head upload
headExtraTags(in) ==
  Spread([n \in {"Self-Name"} |-> Get(in, "name")], propsOf(Get(in, "head_tags")))

\* JSON.stringify followed by JSON.parse: a property whose value is
\* undefined is left out, an undefined array entry becomes null
RECURSIVE jsonDocument(_)
jsonDocument(value) ==
  IF value.t = "object"
  THEN Obj([n \in { k \in DOMAIN value.f : value.f[k] # Undefined } |->
              jsonDocument(value.f[n])])
  ELSE IF value.t = "array"
  THEN Arr([i \in 1..Len(value.items) |->
              IF value.items[i] = Undefined THEN Null ELSE jsonDocument(value.items[i])])
  ELSE value

\* input.x ?? other
orElse(v, other) == IF v.t \in {"null", "undefined"} THEN other ELSE v

\* typeof v === "string" ? v : undefined
stringOrUndefined(v) == IF v.t = "string" THEN v ELSE Undefined

\* only the ideas uploaded by this run are listed
ideaEntriesPublishedOnly(uploaded) ==
  LET fresh == SelectSeq(uploaded, LAMBDA it : it.published)
  IN [i \in 1..Len(fresh) |->
        Obj([idea_id |-> fresh[i].idea_id, tx_id |-> fresh[i].tx_id])]

\* uploadedIdeas.map((it) => ({ idea_id: it.idea_id, tx_id: it.tx_id }))
ideaEntries(uploaded) ==
  [i \in 1..Len(uploaded) |->
     Obj([idea_id |-> uploaded[i].idea_id, tx_id |-> uploaded[i].tx_id])]

\* the snapshot payload; created_at is the time of the run
buildSnapshotPayload(in, parent, uploaded) ==
  Obj([schema |-> Str("afterlife.snapshot@1"),
       self_id |-> Get(in, "self_id"),
       parent_snapshot_tx |-> parent,
       ideas |-> Arr(ideaEntries(uploaded)),
       edges |-> IF Get(in, "edges").t = "array" THEN Get(in, "edges") ELSE Arr(<< >>),
       notes |-> stringOrUndefined(Get(in, "notes")),
       created_at |-> Str("now")])

\* the head payload; updated_at is the time of the run
buildHeadPayload(in, snapTx) ==
  Obj([schema |-> Str("afterlife.selfhead@1"),
       self_id |-> Get(in, "self_id"),
       name |-> Get(in, "name"),
       description |-> stringOrUndefined(Get(in, "description")),
       snapshot_tx |-> snapTx,
       fork_of |-> orElse(Get(in, "fork_of"), Undefined),
       owner_address |-> stringOrUndefined(Get(in, "owner_address")),
       updated_at |-> Str("now"),
       links |-> orElse(Get(in, "links"), Undefined)])

\* ------------------------------------------------------------------------
\* Publisher (publish-self.mjs): input files, options, the world
\* ------------------------------------------------------------------------
PublishIdeaKinds == { "given", "content", "tagged", "override" }

\* the k-th idea of an input file: with a tx id; with content; with content,
\* supersedes_tx and an extra tag; with content and tags that name Entity
PublishIdea(kind, k) ==
  CASE kind = "given" -> Obj([idea_id |-> Str(IdeaId(k)), tx_id |-> Str(IdeaTx(k))])
    [] kind = "content" -> Obj([idea_id |-> Str(IdeaId(k)), content |-> Str("text")])
    [] kind = "tagged" ->
         Obj([idea_id |-> Str(IdeaId(k)), content |-> Str("text"),
              supersedes_tx |-> Str("old"), tags |-> Obj([Topic |-> Str("t")])])
    [] kind = "override" ->
         Obj([idea_id |-> Str(IdeaId(k)), content |-> Str("text"),
              tags |-> Obj([Entity |-> Str("Note")])])

PublishIdeaLists ==
  UNION { { [k \in 1..n |-> PublishIdea(kinds[k], k)] : kinds \in [1..n -> PublishIdeaKinds] } :
          n \in 1..MaxPublishIdeas }

PublishInput(selfId, name, ideas, edges0, parent, auto, headTags) ==
  Obj([self_id |-> selfId, name |-> name, ideas |-> ideas, edges |-> edges0,
       parent_snapshot_tx |-> parent, auto_parent_from_latest |-> auto,
       head_tags |-> headTags])

\* accepted inputs that differ in their ideas
IdeaInputs ==
  { PublishInput(Str("S"), Str("n"), Arr(is), es, Undefined, Undefined, Undefined) :
      is \in PublishIdeaLists,
      es \in { Undefined, Arr(<< Edge(IdeaId(1), IdeaId(1), "refines") >>) } }

\* accepted inputs of one idea that differ in the parent link and head tags
LinkInputs ==
  { PublishInput(Str("S"), Str("n"), Arr(<< PublishIdea("content", 1) >>), Undefined,
                 parent, auto, headTags) :
      parent \in { Undefined, Null, Str("p0"), Str("") },
      auto \in { Undefined, Bool(TRUE), Str("true"), Bool(FALSE) },
      headTags \in { Undefined, Obj([Lang |-> Str("en")]),
                     Obj([n \in {"Entity", "App-Name"} |->
                           IF n = "Entity" THEN Str("Profile") ELSE Str("mine")]) } }

\* accepted inputs of one idea whose tx_id is given but is no string
LooseInputs ==
  { PublishInput(Str("S"), Str("n"),
                 Arr(<< Obj([idea_id |-> Str(IdeaId(1)), tx_id |-> given]) >>),
                 es, Undefined, Undefined, Undefined) :
      given \in { Num(7), Bool(TRUE) },
      es \in { Undefined, Arr(<< Edge(IdeaId(1), IdeaId(1), "refines") >>) } }

\* inputs that validateInput refuses
RefusedInputs ==
  { Null,
    PublishInput(Str(" "), Str("n"), Arr(<< PublishIdea("content", 1) >>),
                 Undefined, Undefined, Undefined, Undefined),
    PublishInput(Undefined, Str("n"), Arr(<< PublishIdea("content", 1) >>),
                 Undefined, Undefined, Undefined, Undefined),
    PublishInput(Str("S"), Str(""), Arr(<< PublishIdea("content", 1) >>),
                 Undefined, Undefined, Undefined, Undefined),
    PublishInput(Str("S"), Str("n"), Arr(<< >>),
                 Undefined, Undefined, Undefined, Undefined),
    PublishInput(Str("S"), Str("n"), Undefined,
                 Undefined, Undefined, Undefined, Undefined),
    PublishInput(Str("S"), Str("n"),
                 Arr(<< PublishIdea("content", 1), PublishIdea("given", 1) >>),
                 Undefined, Undefined, Undefined, Undefined),
    PublishInput(Str("S"), Str("n"),
                 Arr(<< PublishIdea("content", 1), Obj([idea_id |-> Str(IdeaId(2))]) >>),
                 Undefined, Undefined, Undefined, Undefined),
    PublishInput(Str("S"), Str("n"), Arr(<< PublishIdea("content", 1), Null >>),
                 Undefined, Undefined, Undefined, Undefined),
    PublishInput(Str("S"), Str("n"), Arr(<< PublishIdea("content", 1) >>),
                 Arr(<< Edge(IdeaId(1), "zz", "supports") >>),
                 Undefined, Undefined, Undefined),
    PublishInput(Str("S"), Str("n"), Arr(<< PublishIdea("content", 1) >>),
                 Arr(<< Edge(IdeaId(1), IdeaId(1), "likes") >>),
                 Undefined, Undefined, Undefined) }

\* the latest head of the Self-Id before the run: none; a head h0 whose
\* payload names snapshot s0; one whose payload has no snapshot_tx; one
\* whose data no gateway serves
PriorHeads ==
  { Null,
    [id |-> Str("h0"), payload |-> Obj([snapshot_tx |-> Str("s0")])],
    [id |-> Str("h0"), payload |-> Obj([name |-> Str("n")])],
    [id |-> Str("h0"), payload |-> Undefined] }

\* what a call of runSave does: it throws (save.mjs exits non-zero or
\* prints no JSON), or it returns the parsed output of save.mjs, with or
\* without a tx_id; n numbers the calls of the run
SaveOutcomes(n) ==
  { [thrown |-> TRUE, value |-> Str("save.mjs failed (exit 1)")],
    [thrown |-> FALSE, value |-> Obj([ok |-> Bool(TRUE)])],
    [thrown |-> FALSE, value |-> Obj([ok |-> Bool(TRUE), tx_id |-> Str("u" \o ToString(n))])] }

\* data?.transactions?.edges?.[0]?.node?.id ?? null
firstIdOrNull(data) ==
  LET items == data.transactions.edges.items
  IN IF Len(items) > 0 THEN items[1].node.id ELSE Null

\* the outcomes of getLatestHeadTx when the index answers with the head id
\* latest (Null: no head)
getLatestHeadTx(latest) ==
  { IF r.thrown THEN r ELSE [thrown |-> FALSE, value |-> firstIdOrNull(r.value)] :
      r \in postGraphql(TxData(IF latest = Null THEN << >>
                               ELSE << [node |-> [id |-> latest]] >>)) }

\* ------------------------------------------------------------------------
\* Publisher (publish-self.mjs): publish
\* ------------------------------------------------------------------------
\* the idea of the current iteration of the idea loop
currentIdea == Get(input, "ideas").items[ideaIdx]

\* the idea loop is over
ideasDone == ideaIdx > Len(Get(input, "ideas").items)

\* the upload goes on whether or not the result has a tx_id
returnedTxIdAlways(result) == TRUE

\* !(!result.tx_id)
returnedTxId(result) == Truthy(Get(result, "tx_id"))

\* one call of runSave: the entity, the tags and the file given, what came back
Save(entity, tags, body, r) ==
  [entity |-> entity, tags |-> tags, body |-> body, thrown |-> r.thrown, result |-> r.value]

ideaSave(r) ==
  Save("Idea", tagsForEntity("Idea", input, ideaExtraTags(currentIdea)),
       jsonDocument(Get(currentIdea, "content")), r)

snapshotSave(payload, r) ==
  Save("SelfSnapshot", tagsForEntity("SelfSnapshot", input, NoProps), jsonDocument(payload), r)

headSave(payload, r) ==
  Save("SelfHead", tagsForEntity("SelfHead", input, headExtraTags(input)),
       jsonDocument(payload), r)

\* one call of getLatestHeadTx: where it was made and what came back
Lookup(at, r) == [at |-> at, thrown |-> r.thrown, value |-> r.value]

\* input.parent_snapshot_tx ?? null
givenParent == orElse(Get(input, "parent_snapshot_tx"), Null)

\* !parentSnapshotTx && asBool(input.auto_parent_from_latest, false)
needsParentLookup ==
  ~Truthy(givenParent) /\ asBool(Get(input, "auto_parent_from_latest"), FALSE)

\* the id of the head that the index holds before the run
priorId == IF prior = Null THEN Null ELSE prior.id

\* what the index may answer after the head upload: no head, the head it
\* held before, the new head
IndexAnswers == { Null, priorId, headTx }

\* { enabled: verify, matched: null, latest_head_tx: null, attempts: 0 }
noVerification ==
  [enabled |-> verify, matched |-> Null, latest_head_tx |-> Null, attempts |-> 0]

\* verify, attempt <= verifyAttempts, no break yet: a dry run polls as well
pollContinuesInDryRun ==
  /\ verify
  /\ verification.attempts < verifyAttempts
  /\ verification.matched # Bool(TRUE)

\* !dryRun && verify, attempt <= verifyAttempts, no break yet
pollContinues ==
  /\ ~dryRun
  /\ verify
  /\ verification.attempts < verifyAttempts
  /\ verification.matched # Bool(TRUE)

InitPublish ==
  /\ \/ /\ input \in IdeaInputs
        /\ dryRun \in BOOLEAN
        /\ verify \in BOOLEAN
        /\ verifyAttempts \in 0..MaxVerifyAttempts
        /\ prior = Null
     \/ /\ input \in LinkInputs
        /\ dryRun \in BOOLEAN
        /\ verify = TRUE
        /\ verifyAttempts = 1
        /\ prior \in PriorHeads
     \/ /\ input \in RefusedInputs
        /\ dryRun \in BOOLEAN
        /\ verify = TRUE
        /\ verifyAttempts = 1
        /\ prior = Null
     \/ /\ input \in LooseInputs
        /\ dryRun \in BOOLEAN
        /\ verify = TRUE
        /\ verifyAttempts = 1
        /\ prior = Null
  /\ bpc = "start"
  /\ ideaIdx = 1
  /\ uploadedIdeas = << >>
  /\ parentSnapshotTx = Undefined
  /\ snapshotPayload = Undefined
  /\ snapshotTx = Undefined
  /\ headPayload = Undefined
  /\ headTx = Undefined
  /\ verification = Undefined
  /\ saves = << >>
  /\ lookups = << >>
  /\ bOut = Undefined
  /\ bErr = Undefined
  /\ bExit = -1
  /\ GroupIdle /\ TagsIdle /\ GqlIdle /\ FetchIdle /\ VerifyIdle /\ ParseIdle /\ TurboIdle /\ OverrideIdle /\ SaveIdle /\ TimeoutIdle

\* publish: validateInput(input) throws
ValidateThrows ==
  /\ bpc = "start"
  /\ validateInput(input) # ""
  /\ bErr' = Str(validateInput(input))
  /\ bpc' = "thrown"
  /\ UNCHANGED << input, dryRun, verify, verifyAttempts, prior, ideaIdx,
                  uploadedIdeas, parentSnapshotTx, snapshotPayload,
                  snapshotTx, headPayload, headTx, verification, saves,
                  lookups, bOut, bExit, notPublish >>

\* publish: resolveSaveScript finds no save.mjs and throws
SaveScriptMissing ==
  /\ bpc = "start"
  /\ validateInput(input) = ""
  /\ bErr' = Str("Cannot find arweave-turbo-save script")
  /\ bpc' = "thrown"
  /\ UNCHANGED << input, dryRun, verify, verifyAttempts, prior, ideaIdx,
                  uploadedIdeas, parentSnapshotTx, snapshotPayload,
                  snapshotTx, headPayload, headTx, verification, saves,
                  lookups, bOut, bExit, notPublish >>

\* publish: the input is valid, the save script is found, the options are read
PublishStarts ==
  /\ bpc = "start"
  /\ validateInput(input) = ""
  /\ bpc' = "ideas"
  /\ UNCHANGED << input, dryRun, verify, verifyAttempts, prior, ideaIdx,
                  uploadedIdeas, parentSnapshotTx, snapshotPayload,
                  snapshotTx, headPayload, headTx, verification, saves,
                  lookups, bOut, bErr, bExit, notPublish >>

\* the idea loop: if (idea.tx_id) { uploadedIdeas.push(...); continue; }
IdeaGiven ==
  /\ bpc = "ideas"
  /\ ~ideasDone
  /\ Truthy(Get(currentIdea, "tx_id"))
  /\ uploadedIdeas' = Append(uploadedIdeas,
         [idea_id |-> Get(currentIdea, "idea_id"), tx_id |-> Get(currentIdea, "tx_id"),
          published |-> FALSE])
  /\ ideaIdx' = ideaIdx + 1
  /\ UNCHANGED << input, dryRun, verify, verifyAttempts, prior, bpc,
                  parentSnapshotTx, snapshotPayload, snapshotTx, headPayload,
                  headTx, verification, saves, lookups, bOut, bErr, bExit,
                  notPublish >>

\* the idea loop: if (dryRun) { uploadedIdeas.push(<dry-run:id>); continue; }
IdeaDryRun ==
  /\ bpc = "ideas"
  /\ ~ideasDone
  /\ ~Truthy(Get(currentIdea, "tx_id"))
  /\ dryRun
  /\ uploadedIdeas' = Append(uploadedIdeas,
         [idea_id |-> Get(currentIdea, "idea_id"),
          tx_id |-> Str("<dry-run:" \o Template(Get(currentIdea, "idea_id")) \o ">"),
          published |-> FALSE])
  /\ ideaIdx' = ideaIdx + 1
  /\ UNCHANGED << input, dryRun, verify, verifyAttempts, prior, bpc,
                  parentSnapshotTx, snapshotPayload, snapshotTx, headPayload,
                  headTx, verification, saves, lookups, bOut, bErr, bExit,
                  notPublish >>

\* the idea loop: runSave returns a result with a tx_id
IdeaUploaded ==
  /\ bpc = "ideas"
  /\ ~ideasDone
  /\ ~Truthy(Get(currentIdea, "tx_id"))
  /\ ~dryRun
  /\ \E r \in SaveOutcomes(Len(saves) + 1) :
       /\ ~r.thrown
       /\ returnedTxId(r.value)
       /\ saves' = Append(saves, ideaSave(r))
       /\ uploadedIdeas' = Append(uploadedIdeas,
              [idea_id |-> Get(currentIdea, "idea_id"), tx_id |-> Get(r.value, "tx_id"),
               published |-> TRUE])
  /\ ideaIdx' = ideaIdx + 1
  /\ UNCHANGED << input, dryRun, verify, verifyAttempts, prior, bpc,
                  parentSnapshotTx, snapshotPayload, snapshotTx, headPayload,
                  headTx, verification, lookups, bOut, bErr, bExit,
                  notPublish >>

\* the idea loop: runSave throws, or its result has no tx_id
IdeaUploadThrows ==
  /\ bpc = "ideas"
  /\ ~ideasDone
  /\ ~Truthy(Get(currentIdea, "tx_id"))
  /\ ~dryRun
  /\ \E r \in SaveOutcomes(Len(saves) + 1) :
       /\ r.thrown \/ ~returnedTxId(r.value)
       /\ saves' = Append(saves, ideaSave(r))
       /\ bErr' = IF r.thrown THEN r.value
                  ELSE Str("Idea upload for " \o Template(Get(currentIdea, "idea_id"))
                           \o " did not return tx_id")
  /\ bpc' = "thrown"
  /\ UNCHANGED << input, dryRun, verify, verifyAttempts, prior, ideaIdx,
                  uploadedIdeas, parentSnapshotTx, snapshotPayload,
                  snapshotTx, headPayload, headTx, verification, lookups,
                  bOut, bExit, notPublish >>

\* parentSnapshotTx = input.parent_snapshot_tx ?? null, no lookup
ParentKept ==
  /\ bpc = "ideas"
  /\ ideasDone
  /\ ~needsParentLookup
  /\ parentSnapshotTx' = givenParent
  /\ bpc' = "snapshot"
  /\ UNCHANGED << input, dryRun, verify, verifyAttempts, prior, ideaIdx,
                  uploadedIdeas, snapshotPayload, snapshotTx, headPayload,
                  headTx, verification, saves, lookups, bOut, bErr, bExit,
                  notPublish >>

\* auto parent: getLatestHeadTx throws
ParentLookupThrows ==
  /\ bpc = "ideas"
  /\ ideasDone
  /\ needsParentLookup
  /\ \E r \in getLatestHeadTx(priorId) :
       /\ r.thrown
       /\ lookups' = Append(lookups, Lookup("parent", r))
       /\ bErr' = r.value
  /\ bpc' = "thrown"
  /\ UNCHANGED << input, dryRun, verify, verifyAttempts, prior, ideaIdx,
                  uploadedIdeas, parentSnapshotTx, snapshotPayload,
                  snapshotTx, headPayload, headTx, verification, saves, bOut,
                  bExit, notPublish >>

\* auto parent: getLatestHeadTx returns null
ParentLookupNone ==
  /\ bpc = "ideas"
  /\ ideasDone
  /\ needsParentLookup
  /\ \E r \in getLatestHeadTx(priorId) :
       /\ ~r.thrown
       /\ ~Truthy(r.value)
       /\ lookups' = Append(lookups, Lookup("parent", r))
  /\ parentSnapshotTx' = givenParent
  /\ bpc' = "snapshot"
  /\ UNCHANGED << input, dryRun, verify, verifyAttempts, prior, ideaIdx,
                  uploadedIdeas, snapshotPayload, snapshotTx, headPayload,
                  headTx, verification, saves, bOut, bErr, bExit,
                  notPublish >>

\* auto parent: the latest head is found, fetchJsonByTxId throws
ParentFetchThrows ==
  /\ bpc = "ideas"
  /\ ideasDone
  /\ needsParentLookup
  /\ \E r \in getLatestHeadTx(priorId) :
       /\ ~r.thrown
       /\ Truthy(r.value)
       /\ lookups' = Append(lookups, Lookup("parent", r))
       /\ \E f \in fetchJsonByTxId(r.value.v, prior.payload) :
            /\ f.thrown
            /\ bErr' = f.value
  /\ bpc' = "thrown"
  /\ UNCHANGED << input, dryRun, verify, verifyAttempts, prior, ideaIdx,
                  uploadedIdeas, parentSnapshotTx, snapshotPayload,
                  snapshotTx, headPayload, headTx, verification, saves, bOut,
                  bExit, notPublish >>

\* auto parent: the payload of the latest head is fetched
ParentFromLatest ==
  /\ bpc = "ideas"
  /\ ideasDone
  /\ needsParentLookup
  /\ \E r \in getLatestHeadTx(priorId) :
       /\ ~r.thrown
       /\ Truthy(r.value)
       /\ lookups' = Append(lookups, Lookup("parent", r))
       /\ \E f \in fetchJsonByTxId(r.value.v, prior.payload) :
            /\ ~f.thrown
            /\ parentSnapshotTx' =
                 IF Truthy(f.value) /\ Get(f.value, "snapshot_tx").t = "string"
                 THEN Get(f.value, "snapshot_tx") ELSE givenParent
  /\ bpc' = "snapshot"
  /\ UNCHANGED << input, dryRun, verify, verifyAttempts, prior, ideaIdx,
                  uploadedIdeas, snapshotPayload, snapshotTx, headPayload,
                  headTx, verification, saves, bOut, bErr, bExit,
                  notPublish >>

\* the snapshot payload is built; dry run: snapshotTx stays <dry-run:snapshot>
SnapshotDryRun ==
  /\ bpc = "snapshot"
  /\ dryRun
  /\ snapshotPayload' = buildSnapshotPayload(input, parentSnapshotTx, uploadedIdeas)
  /\ snapshotTx' = Str("<dry-run:snapshot>")
  /\ bpc' = "head"
  /\ UNCHANGED << input, dryRun, verify, verifyAttempts, prior, ideaIdx,
                  uploadedIdeas, parentSnapshotTx, headPayload, headTx,
                  verification, saves, lookups, bOut, bErr, bExit,
                  notPublish >>

\* the snapshot payload is built and uploaded; runSave returns a tx_id
SnapshotUploaded ==
  /\ bpc = "snapshot"
  /\ ~dryRun
  /\ snapshotPayload' = buildSnapshotPayload(input, parentSnapshotTx, uploadedIdeas)
  /\ \E r \in SaveOutcomes(Len(saves) + 1) :
       /\ ~r.thrown
       /\ returnedTxId(r.value)
       /\ saves' = Append(saves, snapshotSave(snapshotPayload', r))
       /\ snapshotTx' = Get(r.value, "tx_id")
  /\ bpc' = "head"
  /\ UNCHANGED << input, dryRun, verify, verifyAttempts, prior, ideaIdx,
                  uploadedIdeas, parentSnapshotTx, headPayload, headTx,
                  verification, lookups, bOut, bErr, bExit, notPublish >>

\* the snapshot upload throws, or its result has no tx_id
SnapshotUploadThrows ==
  /\ bpc = "snapshot"
  /\ ~dryRun
  /\ snapshotPayload' = buildSnapshotPayload(input, parentSnapshotTx, uploadedIdeas)
  /\ \E r \in SaveOutcomes(Len(saves) + 1) :
       /\ r.thrown \/ ~returnedTxId(r.value)
       /\ saves' = Append(saves, snapshotSave(snapshotPayload', r))
       /\ bErr' = IF r.thrown THEN r.value ELSE Str("Snapshot upload did not return tx_id")
  /\ bpc' = "thrown"
  /\ UNCHANGED << input, dryRun, verify, verifyAttempts, prior, ideaIdx,
                  uploadedIdeas, parentSnapshotTx, snapshotTx, headPayload,
                  headTx, verification, lookups, bOut, bExit, notPublish >>

\* the head payload is built; dry run: headTx stays <dry-run:selfhead>
HeadDryRun ==
  /\ bpc = "head"
  /\ dryRun
  /\ headPayload' = buildHeadPayload(input, snapshotTx)
  /\ headTx' = Str("<dry-run:selfhead>")
  /\ verification' = noVerification
  /\ bpc' = "poll"
  /\ UNCHANGED << input, dryRun, verify, verifyAttempts, prior, ideaIdx,
                  uploadedIdeas, parentSnapshotTx, snapshotPayload,
                  snapshotTx, saves, lookups, bOut, bErr, bExit, notPublish >>

\* the head payload is built and uploaded; runSave returns a tx_id
HeadUploaded ==
  /\ bpc = "head"
  /\ ~dryRun
  /\ headPayload' = buildHeadPayload(input, snapshotTx)
  /\ \E r \in SaveOutcomes(Len(saves) + 1) :
       /\ ~r.thrown
       /\ returnedTxId(r.value)
       /\ saves' = Append(saves, headSave(headPayload', r))
       /\ headTx' = Get(r.value, "tx_id")
  /\ verification' = noVerification
  /\ bpc' = "poll"
  /\ UNCHANGED << input, dryRun, verify, verifyAttempts, prior, ideaIdx,
                  uploadedIdeas, parentSnapshotTx, snapshotPayload,
                  snapshotTx, lookups, bOut, bErr, bExit, notPublish >>

\* the head upload throws, or its result has no tx_id
HeadUploadThrows ==
  /\ bpc = "head"
  /\ ~dryRun
  /\ headPayload' = buildHeadPayload(input, snapshotTx)
  /\ \E r \in SaveOutcomes(Len(saves) + 1) :
       /\ r.thrown \/ ~returnedTxId(r.value)
       /\ saves' = Append(saves, headSave(headPayload', r))
       /\ bErr' = IF r.thrown THEN r.value ELSE Str("Head upload did not return tx_id")
  /\ bpc' = "thrown"
  /\ UNCHANGED << input, dryRun, verify, verifyAttempts, prior, ideaIdx,
                  uploadedIdeas, parentSnapshotTx, snapshotPayload,
                  snapshotTx, headTx, verification, lookups, bOut, bExit,
                  notPublish >>

\* the verification loop: one getLatestHeadTx that returns; break when matched,
\* else sleep verifyDelayMs
PollLookup ==
  /\ bpc = "poll"
  /\ pollContinues
  /\ \E latest \in IndexAnswers :
       \E r \in getLatestHeadTx(latest) :
         /\ ~r.thrown
         /\ lookups' = Append(lookups, Lookup("poll", r))
         /\ verification' = [enabled |-> TRUE, matched |-> Bool(r.value = headTx),
                              latest_head_tx |-> r.value,
                              attempts |-> verification.attempts + 1]
  /\ UNCHANGED << input, dryRun, verify, verifyAttempts, prior, bpc, ideaIdx,
                  uploadedIdeas, parentSnapshotTx, snapshotPayload,
                  snapshotTx, headPayload, headTx, saves, bOut, bErr, bExit,
                  notPublish >>

\* the verification loop: getLatestHeadTx throws
PollLookupThrows ==
  /\ bpc = "poll"
  /\ pollContinues
  /\ \E latest \in IndexAnswers :
       \E r \in getLatestHeadTx(latest) :
         /\ r.thrown
         /\ lookups' = Append(lookups, Lookup("poll", r))
         /\ bErr' = r.value
  /\ bpc' = "thrown"
  /\ UNCHANGED << input, dryRun, verify, verifyAttempts, prior, ideaIdx,
                  uploadedIdeas, parentSnapshotTx, snapshotPayload,
                  snapshotTx, headPayload, headTx, verification, saves, bOut,
                  bExit, notPublish >>

\* the loop is over or was not entered: the report is written to stdout
PublishPrints ==
  /\ bpc = "poll"
  /\ ~pollContinues
  /\ bOut' = [ok |-> TRUE, self_id |-> Get(input, "self_id"), name |-> Get(input, "name"),
               publish |-> [idea_txs |-> uploadedIdeas, snapshot_tx |-> snapshotTx,
                            head_tx |-> headTx],
               payloads |-> [snapshot |-> snapshotPayload, head |-> headPayload],
               verification |-> verification, dry_run |-> dryRun]
  /\ bExit' = 0
  /\ bpc' = "printed"
  /\ UNCHANGED << input, dryRun, verify, verifyAttempts, prior, ideaIdx,
                  uploadedIdeas, parentSnapshotTx, snapshotPayload,
                  snapshotTx, headPayload, headTx, verification, saves,
                  lookups, bErr, notPublish >>

\* publish().catch: { ok: false, error } is written to stderr; process.exit(1)
PublishCatches ==
  /\ bpc = "thrown"
  /\ bExit' = 1
  /\ bpc' = "failed"
  /\ UNCHANGED << input, dryRun, verify, verifyAttempts, prior, ideaIdx,
                  uploadedIdeas, parentSnapshotTx, snapshotPayload,
                  snapshotTx, headPayload, headTx, verification, saves,
                  lookups, bOut, bErr, notPublish >>

NextPublish ==
  \/ ValidateThrows
  \/ SaveScriptMissing
  \/ PublishStarts
  \/ IdeaGiven
  \/ IdeaDryRun
  \/ IdeaUploaded
  \/ IdeaUploadThrows
  \/ ParentKept
  \/ ParentLookupThrows
  \/ ParentLookupNone
  \/ ParentFetchThrows
  \/ ParentFromLatest
  \/ SnapshotDryRun
  \/ SnapshotUploaded
  \/ SnapshotUploadThrows
  \/ HeadDryRun
  \/ HeadUploaded
  \/ HeadUploadThrows
  \/ PollLookup
  \/ PollLookupThrows
  \/ PublishPrints
  \/ PublishCatches

SpecPublish == InitPublish /\ [][NextPublish]_vars

\* ------------------------------------------------------------------------
\* Generic fetch (arweave-turbo-fetch/scripts/fetch.mjs, common.mjs)
\* ------------------------------------------------------------------------
TURBO_DEFAULT_GATEWAYS == << "https://arweave.net", "https://ar-io.dev" >>

\* [...new Set(list)]: the first occurrence of each entry, in order
RECURSIVE setOfList(_, _, _)
setOfList(list, i, out) ==
  IF i > Len(list) THEN out
  ELSE setOfList(list, i + 1,
                 IF \E j \in 1..Len(out) : out[j] = list[i] THEN out
                 ELSE Append(out, list[i]))

\* uniqueGateways(primary); getEnv has already removed a trailing slash
uniqueGateways(primary) == setOfList(<< primary >> \o TURBO_DEFAULT_GATEWAYS, 1, << >>)

\* tagsToMap of fetch.mjs: out[tag.name] = tag.value, the last value wins
RECURSIVE turboTagsToMap(_, _, _)
turboTagsToMap(list, i, out) ==
  IF i > Len(list) THEN out
  ELSE turboTagsToMap(list, i + 1,
         [n \in DOMAIN out \cup {list[i].name} |->
            IF n = list[i].name THEN list[i].value ELSE out[n]])

\* txTags[name]
tagOf(map, name) == IF name \in DOMAIN map THEN Str(map[name]) ELSE Undefined

\* a || b
Or(a, b) == IF Truthy(a) THEN a ELSE b

\* pickContentEncoding({ argEncoding, txTags })
pickContentEncoding(argEncoding, map) ==
  IF Truthy(argEncoding) THEN argEncoding
  ELSE Or(tagOf(map, "Content-Encoding"), Or(tagOf(map, "Stored-Encoding"), Null))

\* a byte buffer: the text it holds and the codec it is compressed with
Buffer(codec, text) == [codec |-> codec, text |-> text]

\* sha256Hex(buffer): different buffers have different digests
sha256Hex(buffer) == "sha256<" \o buffer.codec \o ":" \o buffer.text \o ">"

\* buffer.length: compressed bytes and plain bytes differ in length
byteLength(buffer) == IF buffer.codec = "none" THEN 8 ELSE 5

\* encoding.toLowerCase()
toLowerCase(s) ==
  CASE s = "GZIP" -> "gzip"
    [] s = "Brotli" -> "brotli"
    [] OTHER -> s

\* gunzipSync / brotliDecompressSync: the plain bytes, or a throw when the
\* buffer is not compressed with that codec
decompress(codec, buffer) ==
  IF buffer.codec = codec THEN [thrown |-> FALSE, value |-> Buffer("none", buffer.text)]
  ELSE [thrown |-> TRUE, value |-> Err("Error", "incorrect header check", 0)]

\* decodeByEncoding(buffer, encoding)
decodeByEncoding(buffer, encoding) ==
  IF ~Truthy(encoding) THEN [thrown |-> FALSE, value |-> buffer]
  ELSE LET normalized == toLowerCase(encoding.v)
       IN IF normalized = "gzip" THEN decompress("gzip", buffer)
          ELSE IF normalized \in {"br", "brotli"} THEN decompress("br", buffer)
          ELSE [thrown |-> FALSE, value |-> buffer]

\* normalizeTags(inputTags): entries with a name and a non-null value, as strings
normalizeTags(pairs) ==
  LET kept == SelectSeq(pairs, LAMBDA p : p.name # "" /\ p.value.t \notin {"null", "undefined"})
  IN [i \in 1..Len(kept) |-> Tag(kept[i].name, Template(kept[i].value))]

\* mergeTags(baseTags, extraTags): a Map by name, later entries replace
RECURSIVE mergeTagsLoop(_, _, _)
mergeTagsLoop(list, i, merged) ==
  IF i > Len(list) THEN merged
  ELSE mergeTagsLoop(list, i + 1, MapSet(merged, list[i].name, list[i]))

mergeTags(baseTags, extraTags) == MapValues(mergeTagsLoop(baseTags \o extraTags, 1, EmptyMap))

\* the tag filters of a fetch by tags
queryTagsOf(a, env) ==
  LET tupleTags == normalizeTags(<<
        [name |-> "App-Name", value |-> orElse(Get(a, "app_tag"), Get(env, "appTag"))],
        [name |-> "Content-SHA256", value |-> Get(a, "hash")],
        [name |-> "Logical-Name", value |-> Get(a, "name")],
        [name |-> "Created-At", value |-> Get(a, "created_at")] >>)
      extraTags == normalizeTags(IF Truthy(Get(a, "tags")) THEN Get(a, "tags").pairs ELSE << >>)
  IN SelectSeq(mergeTags(tupleTags, extraTags),
               LAMBDA tag : tag.value # "" /\ tag.value # "undefined")

\* fingerprintAddress(address)
fingerprintAddress(address) ==
  IF ~Truthy(address) \/ address.v \in {"short"} THEN address
  ELSE Str("finger:" \o address.v)

\* expectedHash || txTags["Original-SHA256"] || txTags["Content-SHA256"] || null
expectedHashOf(expectedHash, map) ==
  Or(expectedHash, Or(tagOf(map, "Original-SHA256"), Or(tagOf(map, "Content-SHA256"), Null)))

\* the integrity_check record
integrityCheck(expected, decodedHash) ==
  IF Truthy(expected)
  THEN [expected |-> expected, actual |-> decodedHash,
        matched |-> Bool(expected = Str(decodedHash))]
  ELSE [expected |-> Null, actual |-> decodedHash, matched |-> Null]

\* nodes[nodes.length - 1]
lastNode(nodes) == nodes[Len(nodes)]

\* nodes[0]
firstNode(nodes) == nodes[1]

\* fetchBufferWithRetry(url, { retries: 2 }): attempt 0..2, the first
\* response that is ok is returned, else the last error is thrown
RECURSIVE fetchBufferLoop(_, _, _, _)
fetchBufferLoop(behs, data, attempt, lastError) ==
  IF attempt > 2 THEN [thrown |-> TRUE, value |-> lastError]
  ELSE IF behs[attempt + 1] = "answer"
    THEN [thrown |-> FALSE, value |-> [buffer |-> data, contentType |-> Null]]
  ELSE fetchBufferLoop(behs, data, attempt + 1,
         IF behs[attempt + 1] = "reject" THEN Err("TypeError", "fetch failed", attempt)
         ELSE Err("Error", "HTTP 500 ", attempt))

fetchBufferWithRetry(behs, data) == fetchBufferLoop(behs, data, 0, Undefined)

\* ------------------------------------------------------------------------
\* Generic fetch: options, transactions, gateways
\* ------------------------------------------------------------------------
\* {} as a tags object
NoTags == [n \in {} |-> ""]

\* a transaction held by the gateways: id, tags, stored bytes
TurboTx(id, tags, data) == [id |-> id, tags |-> tags, data |-> data]

OtherTx == TurboTx("TX2", << Tag("App-Name", "other") >>, Buffer("none", "other"))

\* the tag name = value, no tag when the value is ""
TagIf(name, value) == IF value = "" THEN << >> ELSE << Tag(name, value) >>

\* the options of a run; an option that is not given is undefined
ArgNames == { "tx_id", "expected_hash", "content_encoding", "output_path",
              "owner_address", "app_tag", "hash", "name", "created_at", "tags" }

TurboArgs(given) == Obj(Spread([n \in ArgNames |-> Undefined], given))

TurboEnv(gateway, appTag) == Obj([gateway |-> Str(gateway), appTag |-> Str(appTag)])

\* the digest of the text "doc", as a tag value should name it
DocHash == sha256Hex(Buffer("none", "doc"))

\* runs that differ in the encoding tags and the stored bytes
EncodingRuns ==
  { [args |-> TurboArgs([tx_id |-> id, output_path |-> Str("out")]),
     env |-> TurboEnv("https://arweave.net", "codex-arweave-skill"),
     chain |-> << TurboTx("TX1", TagIf("Content-Encoding", ce) \o TagIf("Stored-Encoding", se),
                          Buffer(codec, "doc")), OtherTx >>] :
      id \in { Undefined, Str("TX1") },
      ce \in { "", "gzip", "GZIP", "br", "brotli", "identity" },
      se \in { "", "gzip" },
      codec \in { "none", "gzip", "br" } }

\* runs that differ in --content_encoding and --output_path
OptionRuns ==
  { [args |-> TurboArgs([tx_id |-> id, content_encoding |-> enc, output_path |-> out]),
     env |-> TurboEnv("https://arweave.net", "codex-arweave-skill"),
     chain |-> << TurboTx("TX1", << >>, Buffer("gzip", "doc")), OtherTx >>] :
      id \in { Undefined, Str("TX1") },
      enc \in { Undefined, Str("gzip") },
      out \in { Undefined, Str("out") } }

\* runs that differ in the hash tags and --expected_hash
HashRuns ==
  { [args |-> TurboArgs([tx_id |-> id, expected_hash |-> expected]),
     env |-> TurboEnv("https://arweave.net", "codex-arweave-skill"),
     chain |-> << TurboTx("TX1", TagIf("Original-SHA256", original)
                                   \o TagIf("Content-SHA256", content),
                          Buffer("none", "doc")), OtherTx >>] :
      id \in { Undefined, Str("TX1") },
      expected \in { Undefined, Str(DocHash), Str("bad") },
      original \in { "", DocHash, "bad" },
      content \in { "", DocHash, "bad2" } }

\* runs by tags that differ in the tag filters and the primary gateway
FilterRuns ==
  { [args |-> TurboArgs([app_tag |-> appTag, hash |-> hash, tags |-> tags0,
                         owner_address |-> owner]),
     env |-> TurboEnv(gateway, envTag),
     chain |-> << TurboTx("TX1", << Tag("App-Name", "mine") >>, Buffer("none", "doc")),
                  OtherTx >>] :
      appTag \in { Undefined, Str("mine") },
      hash \in { Undefined, Str("h") },
      tags0 \in { Undefined, BadJson,
                  [t |-> "object", pairs |-> << [name |-> "App-Name", value |-> Str("over")] >>] },
      owner \in { Undefined, Str("owner-address-1") },
      gateway \in { "https://arweave.net", "https://ar-io.dev", "https://my.gw" },
      envTag \in { "codex-arweave-skill", "" } }

TurboRuns == EncodingRuns \cup OptionRuns \cup HashRuns \cup FilterRuns

\* what a gateway may answer to the tag query; data tells whether the body
\* has data.transactions.edges, nodes are the nodes of those edges
TurboGqlResponses(chain) ==
  { [net |-> "reject", status |-> 0, json |-> Undefined],
    [net |-> "ok", status |-> 500, json |-> Undefined],
    [net |-> "ok", status |-> 200, json |-> BadJson],
    [net |-> "ok", status |-> 200, json |-> [errors |-> << "bad query" >>, data |-> FALSE, nodes |-> << >>]],
    [net |-> "ok", status |-> 200, json |-> [errors |-> << >>, data |-> FALSE, nodes |-> << >>]] }
  \cup { [net |-> "ok", status |-> 200, json |-> [errors |-> << >>, data |-> TRUE, nodes |-> nodes]] :
           nodes \in { << >>, << chain[1] >>, << chain[2], chain[1] >> } }

\* queryTxByTags: throws on a network error, a non-success status, a body
\* that is no JSON, a non-empty errors list; else
\* json.data?.transactions?.edges?.map((edge) => edge.node) ?? []
queryTxByTags(resp) ==
  IF resp.net = "reject" THEN [thrown |-> TRUE, value |-> "fetch failed"]
  ELSE IF ~resOk(resp) THEN [thrown |-> TRUE, value |-> "GraphQL query failed"]
  ELSE IF resp.json = BadJson THEN [thrown |-> TRUE, value |-> "Unexpected token"]
  ELSE IF Len(resp.json.errors) > 0 THEN [thrown |-> TRUE, value |-> "GraphQL error"]
  ELSE [thrown |-> FALSE, value |-> IF resp.json.data THEN resp.json.nodes ELSE << >>]

\* nodes.length > 0
hasNodes(nodes) == Len(nodes) > 0

\* what the three requests of one fetchBufferWithRetry call meet
RetryBehaviours == [1..3 -> NetBehaviours]

\* the stored bytes of the transaction with that id
dataOf(chain, id) ==
  IF \E i \in 1..Len(chain) : chain[i].id = id.v
  THEN chain[CHOOSE i \in 1..Len(chain) : chain[i].id = id.v].data
  ELSE Undefined

\* decodeByEncoding(fetched.buffer, pickContentEncoding(...))
decodedOf(buffer, a, map) ==
  decodeByEncoding(buffer, pickContentEncoding(Get(a, "content_encoding"), map))

InitTurbo ==
  /\ \E run \in TurboRuns :
       /\ uArgs = run.args
       /\ uEnv = run.env
       /\ uChain = run.chain
       /\ uGateways = uniqueGateways(Get(run.env, "gateway").v)
  /\ upc = "start"
  /\ uIdx = 1
  /\ uQueries = << >>
  /\ uTxId = Undefined
  /\ uTxTags = NoTags
  /\ uResolvedBy = Undefined
  /\ uDownloads = << >>
  /\ uFetched = Undefined
  /\ uOut = Undefined
  /\ uWritten = Undefined
  /\ uErr = Undefined
  /\ uExit = -1
  /\ GroupIdle /\ TagsIdle /\ GqlIdle /\ FetchIdle /\ VerifyIdle /\ ParseIdle /\ PublishIdle /\ OverrideIdle /\ SaveIdle /\ TimeoutIdle

\* run: --tx_id is given; txTags stays {} and no tag query is made
TurboStartsById ==
  /\ upc = "start"
  /\ Truthy(Get(uArgs, "tx_id"))
  /\ uTxId' = Get(uArgs, "tx_id")
  /\ uTxTags' = NoTags
  /\ uIdx' = 1
  /\ upc' = "download"
  /\ UNCHANGED << uArgs, uEnv, uChain, uGateways, uQueries, uResolvedBy,
                  uDownloads, uFetched, uOut, uWritten, uErr, uExit,
                  notTurbo >>

\* run: no --tx_id; JSON.parse of --tags throws
TurboTagsArgThrows ==
  /\ upc = "start"
  /\ ~Truthy(Get(uArgs, "tx_id"))
  /\ Get(uArgs, "tags") = BadJson
  /\ uErr' = Err("SyntaxError", "Unexpected token", 0)
  /\ upc' = "thrown"
  /\ UNCHANGED << uArgs, uEnv, uChain, uGateways, uIdx, uQueries, uTxId,
                  uTxTags, uResolvedBy, uDownloads, uFetched, uOut, uWritten,
                  uExit, notTurbo >>

\* run: no --tx_id and no tag filter is left; errOut and process.exit(2)
TurboNoFilter ==
  /\ upc = "start"
  /\ ~Truthy(Get(uArgs, "tx_id"))
  /\ Get(uArgs, "tags") # BadJson
  /\ Len(queryTagsOf(uArgs, uEnv)) = 0
  /\ uErr' = Str("Fetch by tags requires at least one tag filter.")
  /\ uExit' = 2
  /\ upc' = "exited"
  /\ UNCHANGED << uArgs, uEnv, uChain, uGateways, uIdx, uQueries, uTxId,
                  uTxTags, uResolvedBy, uDownloads, uFetched, uOut, uWritten,
                  notTurbo >>

\* run: no --tx_id; resolveTxByTags is called with the tag filters
TurboStartsByTags ==
  /\ upc = "start"
  /\ ~Truthy(Get(uArgs, "tx_id"))
  /\ Get(uArgs, "tags") # BadJson
  /\ Len(queryTagsOf(uArgs, uEnv)) > 0
  /\ uIdx' = 1
  /\ upc' = "resolve"
  /\ UNCHANGED << uArgs, uEnv, uChain, uGateways, uQueries, uTxId, uTxTags,
                  uResolvedBy, uDownloads, uFetched, uOut, uWritten, uErr,
                  uExit, notTurbo >>

\* resolveTxByTags: queryTxByTags throws; catch { } and the next gateway
QueryFails ==
  /\ upc = "resolve"
  /\ uIdx <= Len(uGateways)
  /\ \E resp \in TurboGqlResponses(uChain) :
       /\ queryTxByTags(resp).thrown
       /\ uQueries' = Append(uQueries, [gateway |-> uGateways[uIdx], thrown |-> TRUE,
                                        nodes |-> << >>])
  /\ uIdx' = uIdx + 1
  /\ UNCHANGED << uArgs, uEnv, uChain, uGateways, upc, uTxId, uTxTags,
                  uResolvedBy, uDownloads, uFetched, uOut, uWritten, uErr,
                  uExit, notTurbo >>

\* resolveTxByTags: queryTxByTags returns no node; the next gateway
QueryEmpty ==
  /\ upc = "resolve"
  /\ uIdx <= Len(uGateways)
  /\ \E resp \in TurboGqlResponses(uChain) :
       /\ ~queryTxByTags(resp).thrown
       /\ ~hasNodes(queryTxByTags(resp).value)
       /\ uQueries' = Append(uQueries, [gateway |-> uGateways[uIdx], thrown |-> FALSE,
                                        nodes |-> << >>])
  /\ uIdx' = uIdx + 1
  /\ UNCHANGED << uArgs, uEnv, uChain, uGateways, upc, uTxId, uTxTags,
                  uResolvedBy, uDownloads, uFetched, uOut, uWritten, uErr,
                  uExit, notTurbo >>

\* resolveTxByTags: queryTxByTags returns nodes; return { tx: nodes[0], gateway };
\* run: txId = resolved.tx.id, txTags = tagsToMap(resolved.tx.tags)
QueryMatches ==
  /\ upc = "resolve"
  /\ uIdx <= Len(uGateways)
  /\ \E resp \in TurboGqlResponses(uChain) :
       LET nodes == queryTxByTags(resp)
       IN /\ ~nodes.thrown
          /\ hasNodes(nodes.value)
          /\ uQueries' = Append(uQueries, [gateway |-> uGateways[uIdx], thrown |-> FALSE,
                                           nodes |-> nodes.value])
          /\ uTxId' = Str(firstNode(nodes.value).id)
          /\ uTxTags' = turboTagsToMap(firstNode(nodes.value).tags, 1, NoTags)
  /\ uResolvedBy' = Str(uGateways[uIdx])
  /\ uIdx' = 1
  /\ upc' = "download"
  /\ UNCHANGED << uArgs, uEnv, uChain, uGateways, uDownloads, uFetched, uOut,
                  uWritten, uErr, uExit, notTurbo >>

\* resolveTxByTags returns null; run prints { ok: true, found: false } and returns
ResolveNone ==
  /\ upc = "resolve"
  /\ uIdx > Len(uGateways)
  /\ uOut' = [ok |-> TRUE, found |-> FALSE,
              reason |-> "No matching transaction found via tag queries.",
              query_tags |-> queryTagsOf(uArgs, uEnv),
              owner_address_fingerprint |->
                IF Truthy(Get(uArgs, "owner_address"))
                THEN fingerprintAddress(Get(uArgs, "owner_address")) ELSE Null]
  /\ uExit' = 0
  /\ upc' = "printed"
  /\ UNCHANGED << uArgs, uEnv, uChain, uGateways, uIdx, uQueries, uTxId,
                  uTxTags, uResolvedBy, uDownloads, uFetched, uWritten, uErr,
                  notTurbo >>

\* fetchTxData: fetchBufferWithRetry throws; attempts.push({ status: "failed" })
DownloadFails ==
  /\ upc = "download"
  /\ uIdx <= Len(uGateways)
  /\ \E behs \in RetryBehaviours :
       LET result == fetchBufferWithRetry(behs, dataOf(uChain, uTxId))
       IN /\ result.thrown
          /\ uDownloads' = Append(uDownloads, [gateway |-> uGateways[uIdx],
                                               url |-> uGateways[uIdx] \o "/" \o uTxId.v,
                                               status |-> "failed"])
  /\ uIdx' = uIdx + 1
  /\ UNCHANGED << uArgs, uEnv, uChain, uGateways, upc, uQueries, uTxId,
                  uTxTags, uResolvedBy, uFetched, uOut, uWritten, uErr,
                  uExit, notTurbo >>

\* fetchTxData: fetchBufferWithRetry returns; return { ...result, gateway, attempts }
DownloadOk ==
  /\ upc = "download"
  /\ uIdx <= Len(uGateways)
  /\ dataOf(uChain, uTxId) # Undefined
  /\ \E behs \in RetryBehaviours :
       LET result == fetchBufferWithRetry(behs, dataOf(uChain, uTxId))
       IN /\ ~result.thrown
          /\ uDownloads' = Append(uDownloads, [gateway |-> uGateways[uIdx],
                                               url |-> uGateways[uIdx] \o "/" \o uTxId.v,
                                               status |-> "ok"])
          /\ uFetched' = [buffer |-> result.value.buffer, gateway |-> uGateways[uIdx]]
  /\ upc' = "decode"
  /\ UNCHANGED << uArgs, uEnv, uChain, uGateways, uIdx, uQueries, uTxId,
                  uTxTags, uResolvedBy, uOut, uWritten, uErr, uExit,
                  notTurbo >>

\* fetchTxData: every gateway failed; throw new Error("Unable to fetch ...")
DownloadExhausted ==
  /\ upc = "download"
  /\ uIdx > Len(uGateways)
  /\ uErr' = Err("Error", "Unable to fetch transaction data for " \o uTxId.v, 0)
  /\ upc' = "thrown"
  /\ UNCHANGED << uArgs, uEnv, uChain, uGateways, uIdx, uQueries, uTxId,
                  uTxTags, uResolvedBy, uDownloads, uFetched, uOut, uWritten,
                  uExit, notTurbo >>

\* run: decodeByEncoding throws (the bytes are not in the encoding picked)
DecodeThrows ==
  /\ upc = "decode"
  /\ decodedOf(uFetched.buffer, uArgs, uTxTags).thrown
  /\ uErr' = decodedOf(uFetched.buffer, uArgs, uTxTags).value
  /\ upc' = "thrown"
  /\ UNCHANGED << uArgs, uEnv, uChain, uGateways, uIdx, uQueries, uTxId,
                  uTxTags, uResolvedBy, uDownloads, uFetched, uOut, uWritten,
                  uExit, notTurbo >>

\* run: the bytes are decoded and hashed, the integrity check is made, the
\* bytes are written to --output_path, the result is printed
TurboPrints ==
  /\ upc = "decode"
  /\ ~decodedOf(uFetched.buffer, uArgs, uTxTags).thrown
  /\ LET encoding == pickContentEncoding(Get(uArgs, "content_encoding"), uTxTags)
         decodedBuffer == decodedOf(uFetched.buffer, uArgs, uTxTags).value
         decodedHash == sha256Hex(decodedBuffer)
         expected == expectedHashOf(Get(uArgs, "expected_hash"), uTxTags)
     IN /\ uWritten' = IF Truthy(Get(uArgs, "output_path")) THEN decodedBuffer ELSE Undefined
        /\ uOut' = [ok |-> TRUE, found |-> TRUE, tx_id |-> uTxId,
                    bytes |-> byteLength(decodedBuffer),
                    raw_bytes |-> byteLength(uFetched.buffer),
                    saved_to |-> orElse(Get(uArgs, "output_path"), Null),
                    gateway_used |-> uFetched.gateway,
                    gateway_attempts |-> uDownloads,
                    stored_encoding |-> encoding,
                    sha256 |-> decodedHash,
                    raw_sha256 |-> sha256Hex(uFetched.buffer),
                    integrity_check |-> integrityCheck(expected, decodedHash),
                    tx_tags |-> uTxTags,
                    resolved_by_gateway |-> uResolvedBy]
  /\ uExit' = 0
  /\ upc' = "printed"
  /\ UNCHANGED << uArgs, uEnv, uChain, uGateways, uIdx, uQueries, uTxId,
                  uTxTags, uResolvedBy, uDownloads, uFetched, uErr,
                  notTurbo >>

\* run().catch: errOut("Fetch script failed"); process.exit(1)
TurboCatches ==
  /\ upc = "thrown"
  /\ uExit' = 1
  /\ upc' = "failed"
  /\ UNCHANGED << uArgs, uEnv, uChain, uGateways, uIdx, uQueries, uTxId,
                  uTxTags, uResolvedBy, uDownloads, uFetched, uOut, uWritten,
                  uErr, notTurbo >>

NextTurbo ==
  \/ TurboStartsById
  \/ TurboTagsArgThrows
  \/ TurboNoFilter
  \/ TurboStartsByTags
  \/ QueryFails
  \/ QueryEmpty
  \/ QueryMatches
  \/ ResolveNone
  \/ DownloadFails
  \/ DownloadOk
  \/ DownloadExhausted
  \/ DecodeThrows
  \/ TurboPrints
  \/ TurboCatches

SpecTurbo == InitTurbo /\ [][NextTurbo]_vars

\* ------------------------------------------------------------------------
\* Gateway override (arweave.ts getGateways, index.ts initGatewayOverride)
\* ------------------------------------------------------------------------
\* override?.trim() without the trimming
cleanedRaw(override) == IF override = Null THEN Undefined ELSE override

\* override?.trim()
cleanedOf(override) == IF override = Null THEN Undefined ELSE Str(trim(override.v))

\* getGateways(): item is what localStorage holds under afterlifeGatewayUrl
getGateways(hasStorage, item) ==
  LET override == IF hasStorage THEN item ELSE Null
      cleaned == cleanedOf(override)
  IN IF Truthy(cleaned) THEN << cleaned.v >> \o DEFAULT_GATEWAYS ELSE DEFAULT_GATEWAYS

\* what the input field or the store may hold
OverrideTexts == { "", " ", "https://my.gw", " https://my.gw ", "https://arweave.net" }

\* one call of getGateways: the caller, the item at the time of the call,
\* the list returned
GatewayCall(by) ==
  [by |-> by, item |-> afterlifeGatewayUrl', list |-> getGateways(hasLocalStorage, afterlifeGatewayUrl')]

\* loadLatestHeads: when heads are rendered, txLink calls getGateways
loadLatestHeads ==
  \E rendered \in BOOLEAN :
    gatewayCalls' = IF rendered THEN Append(gatewayCalls, GatewayCall("txLink"))
                    ELSE gatewayCalls

InitOverride ==
  /\ \/ /\ hasLocalStorage = TRUE
        /\ afterlifeGatewayUrl \in {Null} \cup { Str(s) : s \in OverrideTexts }
        /\ opc = "loading"
     \/ /\ hasLocalStorage = FALSE
        /\ afterlifeGatewayUrl = Null
        /\ opc = "ready"
  /\ gatewayOverride = ""
  /\ gatewayCalls = << >>
  /\ GroupIdle /\ TagsIdle /\ GqlIdle /\ FetchIdle /\ VerifyIdle /\ ParseIdle /\ PublishIdle /\ TurboIdle /\ SaveIdle /\ TimeoutIdle

\* DOMContentLoaded: initGatewayOverride shows the stored override in the
\* input field, then loadLatestHeads
PageLoads ==
  /\ opc = "loading"
  /\ Len(gatewayCalls) < MaxGatewayCalls
  /\ gatewayOverride' = IF Truthy(afterlifeGatewayUrl) THEN afterlifeGatewayUrl.v
                        ELSE gatewayOverride
  /\ afterlifeGatewayUrl' = afterlifeGatewayUrl
  /\ loadLatestHeads
  /\ opc' = "ready"
  /\ UNCHANGED << hasLocalStorage, notOverride >>

\* the user edits the input field
TypeOverride ==
  /\ opc = "ready"
  /\ hasLocalStorage
  /\ \E text \in OverrideTexts : gatewayOverride' = text
  /\ UNCHANGED << hasLocalStorage, afterlifeGatewayUrl, gatewayCalls, opc,
                  notOverride >>

\* click on saveGateway: setItem(input.value.trim()), then loadLatestHeads
SaveGateway ==
  /\ opc = "ready"
  /\ hasLocalStorage
  /\ Len(gatewayCalls) < MaxGatewayCalls
  /\ afterlifeGatewayUrl' = Str(trim(gatewayOverride))
  /\ loadLatestHeads
  /\ UNCHANGED << hasLocalStorage, gatewayOverride, opc, notOverride >>

\* click on clearGateway: removeItem, input.value = "", then loadLatestHeads
ClearGateway ==
  /\ opc = "ready"
  /\ hasLocalStorage
  /\ Len(gatewayCalls) < MaxGatewayCalls
  /\ afterlifeGatewayUrl' = Null
  /\ gatewayOverride' = ""
  /\ loadLatestHeads
  /\ UNCHANGED << hasLocalStorage, opc, notOverride >>

\* fetchTxJson(txId): the default of gateways, getGateways(), is evaluated
FetchTxJsonCall ==
  /\ opc = "ready"
  /\ Len(gatewayCalls) < MaxGatewayCalls
  /\ afterlifeGatewayUrl' = afterlifeGatewayUrl
  /\ gatewayCalls' = Append(gatewayCalls, GatewayCall("fetchTxJson"))
  /\ UNCHANGED << hasLocalStorage, gatewayOverride, opc, notOverride >>

NextOverride == PageLoads \/ TypeOverride \/ SaveGateway \/ ClearGateway \/ FetchTxJsonCall

SpecOverride == InitOverride /\ [][NextOverride]_vars

\* ------------------------------------------------------------------------
\* Save script (arweave-turbo-save/scripts/save.mjs)
\* ------------------------------------------------------------------------
\* coerceBoolean(value, fallback)
coerceBoolean(value, fallback) ==
  IF value.t \in {"null", "undefined"} THEN fallback
  ELSE Template(value) \in { "1", "true", "yes", "on", "TRUE", "True" }

\* costs?.[0]?.winc ?? null, for the answer of getUploadCosts
wincOf(costs) ==
  IF costs.t # "array" \/ Len(costs.items) = 0 THEN Null
  ELSE orElse(Get(costs.items[1], "winc"), Null)

\* isZeroCost(winc)
isZeroCost(winc) ==
  IF winc.t \in {"null", "undefined"} THEN FALSE ELSE Template(winc) = "0"

\* a payload variant: its encoding and the length of its buffer
Variant(encoding, length) ==
  [encoding |-> encoding,
   contentEncodingTag |-> IF encoding = "identity" THEN Null ELSE Str(encoding),
   length |-> length]

\* variants.sort((a, b) => a.buffer.length - b.buffer.length), a stable sort
RECURSIVE sortVariants(_, _, _)
sortVariants(list, i, sorted) ==
  IF i > Len(list) THEN sorted
  ELSE LET k == Cardinality({ j \in 1..Len(sorted) : sorted[j].length <= list[i].length })
       IN sortVariants(list, i + 1,
            SubSeq(sorted, 1, k) \o << list[i] >> \o SubSeq(sorted, k + 1, Len(sorted)))

\* pickPayloadVariants(originalBuffer, { allowCompression })
pickPayloadVariants(file, allowCompression) ==
  IF ~allowCompression THEN << Variant("identity", file.bytes) >>
  ELSE sortVariants(<< Variant("identity", file.bytes) >>
                      \o (IF file.gzip < file.bytes THEN << Variant("gzip", file.gzip) >> ELSE << >>)
                      \o (IF file.br < file.bytes THEN << Variant("br", file.br) >> ELSE << >>),
                    1, << >>)

\* variants.find((variant) => variant.buffer.length <= maxBytes)
findVariant(variants, maxBytes) ==
  LET fits == SelectSeq(variants, LAMBDA v : v.length <= maxBytes)
  IN IF Len(fits) > 0 THEN fits[1] ELSE Undefined

\* extractUploadId(response)
extractUploadId(response) ==
  orElse(Get(response, "id"),
    orElse(Get(Get(response, "data"), "id"),
      orElse(Get(response, "transactionId"),
        orElse(Get(response, "dataItemId"),
          orElse(Get(Get(response, "fastFinalityIndexes"), "id"), Null)))))

\* the tags of the upload that name the encoding: Stored-Encoding among the
\* default tags, replaced by a user tag of that name, and Content-Encoding
\* pushed last for a compressed variant
saveTags(variant, userTags) ==
  mergeTags(normalizeTags(<< [name |-> "Stored-Encoding", value |-> Str(variant.encoding)],
                             [name |-> "Skill-Name", value |-> Str("arweave-turbo-save")] >>),
            normalizeTags(IF Truthy(userTags) THEN userTags.pairs ELSE << >>))
    \o (IF Truthy(variant.contentEncodingTag)
        THEN << Tag("Content-Encoding", variant.contentEncodingTag.v) >> ELSE << >>)

\* args.mode ?? "auto"
modeOf(a) == orElse(Get(a, "mode"), Str("auto")).v

\* the variant selected for the file of the run
selectedOf(a, env, file) ==
  findVariant(pickPayloadVariants(file, coerceBoolean(Get(a, "compress_if_needed"), FALSE)),
              Get(env, "maxFreeBytes").n)

\* ------------------------------------------------------------------------
\* Save script: options, files, services
\* ------------------------------------------------------------------------
\* ARWEAVE_MAX_FREE_BYTES of the model
MaxFreeBytes == 100

\* files by the length of their bytes, of their gzip and of their brotli form
SaveFiles ==
  { [bytes |-> 50, gzip |-> 60, br |-> 55],
    [bytes |-> 200, gzip |-> 80, br |-> 90],
    [bytes |-> 200, gzip |-> 90, br |-> 90],
    [bytes |-> 200, gzip |-> 150, br |-> 120] }

SaveArgs(filePath, mode, compress, tags0) ==
  Obj([file_path |-> filePath, mode |-> mode, compress_if_needed |-> compress, tags |-> tags0])

SaveEnv(indexMode, jwk, uploadUrl) ==
  Obj([indexMode |-> Str(indexMode), turboUploadUrl |-> uploadUrl, maxFreeBytes |-> Num(MaxFreeBytes), jwkJson |-> jwk,
       gateway |-> Str("https://arweave.net")])

SaveRuns ==
  { [args |-> SaveArgs(Str("doc.json"), mode, compress, Undefined),
     env |-> SaveEnv("tags-only", Str("{jwk}"), Str("https://upload")), file |-> file] :
      mode \in { Undefined, Str("auto"), Str("x402_raw_free"), Str("signed_data_item"),
                 Str("paid") },
      compress \in { Undefined, Str("true") },
      file \in SaveFiles }
  \cup
  { [args |-> SaveArgs(filePath, Str("auto"), Undefined, tags0),
     env |-> SaveEnv(indexMode, jwk, uploadUrl), file |-> [bytes |-> 50, gzip |-> 60, br |-> 55]] :
      filePath \in { Undefined, Str("doc.json") },
      tags0 \in { Undefined,
                  [t |-> "object", pairs |-> << [name |-> "Stored-Encoding", value |-> Str("gzip")] >>] },
      indexMode \in { "tags-only", "full" },
      jwk \in { Undefined, Str("{jwk}") },
      uploadUrl \in { Str(""), Str("https://upload") } }

\* what getUploadCosts may answer
CostAnswers ==
  { Undefined, Arr(<< >>), Arr(<< Obj([winc |-> Str("0")]) >>),
    Arr(<< Obj([winc |-> Num(0)]) >>), Arr(<< Obj([winc |-> Str("123")]) >>) }

\* what an upload call may return
UploadResponses ==
  { Undefined, Obj([owner |-> Str("o")]), Obj([id |-> Str("tx1")]),
    Obj([dataItemId |-> Str("tx2")]) }

InitSave ==
  /\ \E run \in SaveRuns :
       /\ sArgs = run.args
       /\ sEnv = run.env
       /\ sFile = run.file
  /\ spc = "start"
  /\ selected = Undefined
  /\ sQuote = Undefined
  /\ signedQuote = Undefined
  /\ sUploads = << >>
  /\ sAttempts = << >>
  /\ uploadMode = Null
  /\ uploadResponse = Null
  /\ sOut = Undefined
  /\ sErr = Undefined
  /\ sExit = -1
  /\ GroupIdle /\ TagsIdle /\ GqlIdle /\ FetchIdle /\ VerifyIdle /\ ParseIdle /\ PublishIdle /\ TurboIdle /\ OverrideIdle /\ TimeoutIdle

\* run: no --file_path; errOut and process.exit(1)
SaveNoFilePath ==
  /\ spc = "start"
  /\ ~Truthy(Get(sArgs, "file_path"))
  /\ sErr' = Str("Missing required argument --file_path")
  /\ sExit' = 1
  /\ spc' = "exited"
  /\ UNCHANGED << sArgs, sEnv, sFile, selected, sQuote, signedQuote,
                  sUploads, sAttempts, uploadMode, uploadResponse, sOut,
                  notSave >>

\* run: ARWEAVE_INDEX_MODE is not tags-only; errOut and process.exit(1)
SaveIndexModeUnsupported ==
  /\ spc = "start"
  /\ Truthy(Get(sArgs, "file_path"))
  /\ Get(sEnv, "indexMode") # Str("tags-only")
  /\ sErr' = Str("Unsupported ARWEAVE_INDEX_MODE")
  /\ sExit' = 1
  /\ spc' = "exited"
  /\ UNCHANGED << sArgs, sEnv, sFile, selected, sQuote, signedQuote,
                  sUploads, sAttempts, uploadMode, uploadResponse, sOut,
                  notSave >>

\* run: no Turbo service URL in the environment; errOut and process.exit(1)
SaveTurboUrlsMissing ==
  /\ spc = "start"
  /\ Truthy(Get(sArgs, "file_path"))
  /\ Get(sEnv, "indexMode") = Str("tags-only")
  /\ ~Truthy(Get(sEnv, "turboUploadUrl"))
  /\ sErr' = Str("Missing Turbo service URLs in environment")
  /\ sExit' = 1
  /\ spc' = "exited"
  /\ UNCHANGED << sArgs, sEnv, sFile, selected, sQuote, signedQuote,
                  sUploads, sAttempts, uploadMode, uploadResponse, sOut,
                  notSave >>

\* run: no variant fits ARWEAVE_MAX_FREE_BYTES; errOut and process.exit(2)
SaveTooLarge ==
  /\ spc = "start"
  /\ Truthy(Get(sArgs, "file_path"))
  /\ Get(sEnv, "indexMode") = Str("tags-only")
  /\ Truthy(Get(sEnv, "turboUploadUrl"))
  /\ selectedOf(sArgs, sEnv, sFile) = Undefined
  /\ sErr' = Str("File exceeds free upload threshold and cannot be compressed under limit.")
  /\ sExit' = 2
  /\ spc' = "exited"
  /\ UNCHANGED << sArgs, sEnv, sFile, selected, sQuote, signedQuote,
                  sUploads, sAttempts, uploadMode, uploadResponse, sOut,
                  notSave >>

\* run: a variant is selected; getWincQuote of the unauthenticated client throws
SaveQuoteThrows ==
  /\ spc = "start"
  /\ Truthy(Get(sArgs, "file_path"))
  /\ Get(sEnv, "indexMode") = Str("tags-only")
  /\ Truthy(Get(sEnv, "turboUploadUrl"))
  /\ selectedOf(sArgs, sEnv, sFile) # Undefined
  /\ selected' = selectedOf(sArgs, sEnv, sFile)
  /\ sErr' = Err("Error", "getUploadCosts failed", 0)
  /\ spc' = "thrown"
  /\ UNCHANGED << sArgs, sEnv, sFile, sQuote, signedQuote, sUploads,
                  sAttempts, uploadMode, uploadResponse, sOut, sExit,
                  notSave >>

\* run: a variant is selected; the unauthenticated client returns the quote
SaveQuoted ==
  /\ spc = "start"
  /\ Truthy(Get(sArgs, "file_path"))
  /\ Get(sEnv, "indexMode") = Str("tags-only")
  /\ Truthy(Get(sEnv, "turboUploadUrl"))
  /\ selectedOf(sArgs, sEnv, sFile) # Undefined
  /\ selected' = selectedOf(sArgs, sEnv, sFile)
  /\ \E costs \in CostAnswers : sQuote' = wincOf(costs)
  /\ spc' = "x402"
  /\ UNCHANGED << sArgs, sEnv, sFile, signedQuote, sUploads, sAttempts,
                  uploadMode, uploadResponse, sOut, sErr, sExit, notSave >>

\* run: the mode is neither auto nor x402_raw_free; no raw upload
X402Skipped ==
  /\ spc = "x402"
  /\ modeOf(sArgs) \notin {"auto", "x402_raw_free"}
  /\ spc' = "signed"
  /\ UNCHANGED << sArgs, sEnv, sFile, selected, sQuote, signedQuote,
                  sUploads, sAttempts, uploadMode, uploadResponse, sOut,
                  sErr, sExit, notSave >>

\* run: uploadRawFree is called, whatever the quote, and returns
X402Uploads ==
  /\ spc = "x402"
  /\ modeOf(sArgs) \in {"auto", "x402_raw_free"}
  /\ \E response \in UploadResponses : uploadResponse' = response
  /\ sUploads' = Append(sUploads, [mode |-> "x402_raw_free", winc |-> sQuote,
                                   tags |-> saveTags(selected, Get(sArgs, "tags")),
                                   length |-> selected.length, status |-> "ok"])
  /\ uploadMode' = Str("x402_raw_free")
  /\ sAttempts' = Append(sAttempts, [mode |-> "x402_raw_free", status |-> "ok",
                                     free_quote_winc |-> orElse(sQuote, Null),
                                     free_quote_free_eligible |-> isZeroCost(sQuote)])
  /\ spc' = "signed"
  /\ UNCHANGED << sArgs, sEnv, sFile, selected, sQuote, signedQuote, sOut,
                  sErr, sExit, notSave >>

\* run: uploadRawFree is called, whatever the quote, and throws; the attempt is
\* noted as failed
X402Fails ==
  /\ spc = "x402"
  /\ modeOf(sArgs) \in {"auto", "x402_raw_free"}
  /\ sUploads' = Append(sUploads, [mode |-> "x402_raw_free", winc |-> sQuote,
                                   tags |-> saveTags(selected, Get(sArgs, "tags")),
                                   length |-> selected.length, status |-> "failed"])
  /\ sAttempts' = Append(sAttempts, [mode |-> "x402_raw_free", status |-> "failed",
                                     free_quote_winc |-> orElse(sQuote, Null),
                                     free_quote_free_eligible |-> isZeroCost(sQuote)])
  /\ spc' = "signed"
  /\ UNCHANGED << sArgs, sEnv, sFile, selected, sQuote, signedQuote,
                  uploadMode, uploadResponse, sOut, sErr, sExit, notSave >>

\* run: there is an upload response, or the mode is neither auto nor
\* signed_data_item; no signed upload
SignedSkipped ==
  /\ spc = "signed"
  /\ Truthy(uploadResponse) \/ modeOf(sArgs) \notin {"auto", "signed_data_item"}
  /\ spc' = "finish"
  /\ UNCHANGED << sArgs, sEnv, sFile, selected, sQuote, signedQuote,
                  sUploads, sAttempts, uploadMode, uploadResponse, sOut,
                  sErr, sExit, notSave >>

\* run: getWincQuote of the authenticated client throws
SignedQuoteThrows ==
  /\ spc = "signed"
  /\ ~Truthy(uploadResponse)
  /\ modeOf(sArgs) \in {"auto", "signed_data_item"}
  /\ sErr' = Err("Error", "getUploadCosts failed", 1)
  /\ spc' = "thrown"
  /\ UNCHANGED << sArgs, sEnv, sFile, selected, sQuote, signedQuote,
                  sUploads, sAttempts, uploadMode, uploadResponse, sOut,
                  sExit, notSave >>

\* run: the signed quote is not zero; errOut and process.exit(3)
SignedRefused ==
  /\ spc = "signed"
  /\ ~Truthy(uploadResponse)
  /\ modeOf(sArgs) \in {"auto", "signed_data_item"}
  /\ \E costs \in CostAnswers :
       /\ ~isZeroCost(wincOf(costs))
       /\ signedQuote' = wincOf(costs)
  /\ sErr' = Str("Signed fallback requires payment; refusing by policy.")
  /\ sExit' = 3
  /\ spc' = "exited"
  /\ UNCHANGED << sArgs, sEnv, sFile, selected, sQuote, sUploads, sAttempts,
                  uploadMode, uploadResponse, sOut, notSave >>

\* run: the signed quote is zero; uploadSigned is called and returns
SignedUploads ==
  /\ spc = "signed"
  /\ ~Truthy(uploadResponse)
  /\ modeOf(sArgs) \in {"auto", "signed_data_item"}
  /\ \E costs \in CostAnswers :
       /\ isZeroCost(wincOf(costs))
       /\ signedQuote' = wincOf(costs)
  /\ \E response \in UploadResponses : uploadResponse' = response
  /\ sUploads' = Append(sUploads, [mode |-> "signed_data_item", winc |-> signedQuote',
                                   tags |-> saveTags(selected, Get(sArgs, "tags")),
                                   length |-> selected.length, status |-> "ok"])
  /\ uploadMode' = Str("signed_data_item")
  /\ sAttempts' = Append(sAttempts, [mode |-> "signed_data_item", status |-> "ok"])
  /\ spc' = "finish"
  /\ UNCHANGED << sArgs, sEnv, sFile, selected, sQuote, sOut, sErr, sExit,
                  notSave >>

\* run: the signed quote is zero; uploadSigned is called and throws
SignedUploadThrows ==
  /\ spc = "signed"
  /\ ~Truthy(uploadResponse)
  /\ modeOf(sArgs) \in {"auto", "signed_data_item"}
  /\ \E costs \in CostAnswers :
       /\ isZeroCost(wincOf(costs))
       /\ signedQuote' = wincOf(costs)
  /\ sUploads' = Append(sUploads, [mode |-> "signed_data_item", winc |-> signedQuote',
                                   tags |-> saveTags(selected, Get(sArgs, "tags")),
                                   length |-> selected.length, status |-> "failed"])
  /\ sErr' = Err("Error", "upload failed", 2)
  /\ spc' = "thrown"
  /\ UNCHANGED << sArgs, sEnv, sFile, selected, sQuote, sAttempts,
                  uploadMode, uploadResponse, sOut, sExit, notSave >>

\* run: no upload response; errOut("All upload modes failed.") and process.exit(4)
SaveAllModesFailed ==
  /\ spc = "finish"
  /\ ~Truthy(uploadResponse)
  /\ sErr' = Str("All upload modes failed.")
  /\ sExit' = 4
  /\ spc' = "exited"
  /\ UNCHANGED << sArgs, sEnv, sFile, selected, sQuote, signedQuote,
                  sUploads, sAttempts, uploadMode, uploadResponse, sOut,
                  notSave >>

\* run: the response names no id; errOut and process.exit(5)
SaveNoTxId ==
  /\ spc = "finish"
  /\ Truthy(uploadResponse)
  /\ ~Truthy(extractUploadId(uploadResponse))
  /\ sErr' = Str("Upload succeeded but no transaction id was returned.")
  /\ sExit' = 5
  /\ spc' = "exited"
  /\ UNCHANGED << sArgs, sEnv, sFile, selected, sQuote, signedQuote,
                  sUploads, sAttempts, uploadMode, uploadResponse, sOut,
                  notSave >>

\* run: the result is printed
SavePrints ==
  /\ spc = "finish"
  /\ Truthy(uploadResponse)
  /\ Truthy(extractUploadId(uploadResponse))
  /\ sOut' = [ok |-> TRUE, tx_id |-> extractUploadId(uploadResponse),
              byte_size |-> selected.length, original_bytes |-> sFile.bytes,
              upload_mode_used |-> uploadMode, attempts |-> sAttempts,
              tags_applied |-> saveTags(selected, Get(sArgs, "tags")),
              free_quote_winc |-> sQuote,
              wallet_created |-> ~Truthy(Get(sEnv, "jwkJson"))]
  /\ sExit' = 0
  /\ spc' = "printed"
  /\ UNCHANGED << sArgs, sEnv, sFile, selected, sQuote, signedQuote,
                  sUploads, sAttempts, uploadMode, uploadResponse, sErr,
                  notSave >>

\* run().catch: errOut("Upload script failed"); process.exit(1)
SaveCatches ==
  /\ spc = "thrown"
  /\ sExit' = 1
  /\ spc' = "failed"
  /\ UNCHANGED << sArgs, sEnv, sFile, selected, sQuote, signedQuote,
                  sUploads, sAttempts, uploadMode, uploadResponse, sOut,
                  sErr, notSave >>

NextSave ==
  \/ SaveNoFilePath
  \/ SaveIndexModeUnsupported
  \/ SaveTurboUrlsMissing
  \/ SaveTooLarge
  \/ SaveQuoteThrows
  \/ SaveQuoted
  \/ X402Skipped
  \/ X402Uploads
  \/ X402Fails
  \/ SignedSkipped
  \/ SignedQuoteThrows
  \/ SignedRefused
  \/ SignedUploads
  \/ SignedUploadThrows
  \/ SaveAllModesFailed
  \/ SaveNoTxId
  \/ SavePrints
  \/ SaveCatches

SpecSave == InitSave /\ [][NextSave]_vars

\* ------------------------------------------------------------------------
\* Requests with a timeout (arweave.ts, fetchWithTimeout and its two callers)
\* ------------------------------------------------------------------------
\* the attempt after which the timer of fetchWithTimeout aborts the request:
\* timeoutMs: 12_000 of both callers, in ticks of the model
attemptDue(elapsed) == elapsed = TimeoutTicks

\* how long the model follows one attempt
MaxAttemptTicks == TimeoutTicks + 2

\* what a caller makes of a body that arrived: graphqlRequest returns json.data
\* or throws on errors and on missing data, fetchTxJson returns JSON.parse(text)
\* or throws its SyntaxError
BodyKinds == { "good", "bad" }

bodyError(caller, attempt) ==
  IF caller = "graphqlRequest" THEN Err("Error", "GraphQL missing data", attempt)
  ELSE Err("SyntaxError", "Unexpected token", attempt)

\* the last error of a call that ran out of endpoints
exhaustedError(caller, lastErr) ==
  IF lastErr # Undefined THEN lastErr
  ELSE IF caller = "graphqlRequest" THEN Err("Error", "GraphQL request failed", 0)
  ELSE Err("Error", "Failed to fetch tx JSON", 0)

InitTimeout ==
  /\ wCaller \in { "graphqlRequest", "fetchTxJson" }
  /\ wEndpoints \in 1..MaxEndpoints
  /\ wIdx = 1
  /\ wpc = "loop"
  /\ timer = "none"
  /\ wElapsed = 0
  /\ wAttempts = << >>
  /\ wLastErr = Undefined
  /\ wResult = Undefined
  /\ GroupIdle /\ TagsIdle /\ GqlIdle /\ FetchIdle /\ VerifyIdle /\ ParseIdle /\ PublishIdle /\ TurboIdle /\ OverrideIdle /\ SaveIdle

\* fetchWithTimeout: const timer = setTimeout(() => controller.abort(), timeoutMs);
\* fetch(input, { ...rest, signal: controller.signal }) is awaited
AttemptStarts ==
  /\ wpc = "loop"
  /\ wIdx <= wEndpoints
  /\ timer' = "armed"
  /\ wElapsed' = 0
  /\ wpc' = "fetching"
  /\ UNCHANGED << wCaller, wEndpoints, wIdx, wAttempts, wLastErr, wResult,
                  notTimeout >>

\* time passes while the caller awaits fetch or the body of the response
TimePasses ==
  /\ \/ wpc = "fetching" /\ ~attemptDue(wElapsed)
     \/ wpc = "body" /\ wElapsed < MaxAttemptTicks
  /\ wElapsed' = wElapsed + 1
  /\ UNCHANGED << wCaller, wEndpoints, wIdx, wpc, timer, wAttempts, wLastErr,
                  wResult, notTimeout >>

\* the timer is due while fetch is pending: controller.abort() rejects fetch,
\* finally clears the timer, the caller catches: lastErr = err
TimerFires ==
  /\ wpc = "fetching"
  /\ timer = "armed"
  /\ attemptDue(wElapsed)
  /\ timer' = "fired"
  /\ wAttempts' = Append(wAttempts, [endpoint |-> wIdx, outcome |-> "aborted", elapsed |-> wElapsed])
  /\ wLastErr' = Err("AbortError", "This operation was aborted", wIdx)
  /\ wpc' = "sleep"
  /\ UNCHANGED << wCaller, wEndpoints, wIdx, wElapsed, wResult, notTimeout >>

\* fetch rejects with a network error: finally clears the timer, the caller
\* catches: lastErr = err
FetchRejects ==
  /\ wpc = "fetching"
  /\ timer' = "cleared"
  /\ wAttempts' = Append(wAttempts, [endpoint |-> wIdx, outcome |-> "rejected", elapsed |-> wElapsed])
  /\ wLastErr' = Err("TypeError", "fetch failed", wIdx)
  /\ wpc' = "sleep"
  /\ UNCHANGED << wCaller, wEndpoints, wIdx, wElapsed, wResult, notTimeout >>

\* fetch resolves with the head of a response that is not ok: finally clears the
\* timer, if (!res.ok) throw, the caller catches
FetchResolvesNotOk ==
  /\ wpc = "fetching"
  /\ timer' = "cleared"
  /\ wAttempts' = Append(wAttempts, [endpoint |-> wIdx, outcome |-> "http", elapsed |-> wElapsed])
  /\ wLastErr' = Err("Error", "HTTP 500", wIdx)
  /\ wpc' = "sleep"
  /\ UNCHANGED << wCaller, wEndpoints, wIdx, wElapsed, wResult, notTimeout >>

\* fetch resolves with the head of an ok response: return await fetch(...), finally
\* clears the timer; the caller awaits res.json() or res.text()
FetchResolvesOk ==
  /\ wpc = "fetching"
  /\ timer' = "cleared"
  /\ wpc' = "body"
  /\ UNCHANGED << wCaller, wEndpoints, wIdx, wElapsed, wAttempts, wLastErr,
                  wResult, notTimeout >>

\* the body arrives: the caller returns its value, or throws on it and catches
BodyArrives ==
  /\ wpc = "body"
  /\ \E kind \in BodyKinds :
       IF kind = "good"
       THEN /\ wAttempts' = Append(wAttempts, [endpoint |-> wIdx, outcome |-> "returned", elapsed |-> wElapsed])
            /\ wResult' = Str("data")
            /\ wpc' = "returned"
            /\ UNCHANGED wLastErr
       ELSE /\ wAttempts' = Append(wAttempts, [endpoint |-> wIdx, outcome |-> "threw", elapsed |-> wElapsed])
            /\ wLastErr' = bodyError(wCaller, wIdx)
            /\ wpc' = "sleep"
            /\ UNCHANGED wResult
  /\ UNCHANGED << wCaller, wEndpoints, wIdx, timer, wElapsed, notTimeout >>

\* the stream of the body fails: res.json() or res.text() rejects, the caller
\* catches
BodyRejects ==
  /\ wpc = "body"
  /\ wAttempts' = Append(wAttempts, [endpoint |-> wIdx, outcome |-> "rejected", elapsed |-> wElapsed])
  /\ wLastErr' = Err("TypeError", "terminated", wIdx)
  /\ wpc' = "sleep"
  /\ UNCHANGED << wCaller, wEndpoints, wIdx, timer, wElapsed, wResult,
                  notTimeout >>

\* await sleep(120) and the next endpoint of the for loop
SleepEnds ==
  /\ wpc = "sleep"
  /\ wIdx' = wIdx + 1
  /\ wpc' = "loop"
  /\ UNCHANGED << wCaller, wEndpoints, timer, wElapsed, wAttempts, wLastErr,
                  wResult, notTimeout >>

\* throw lastErr instanceof Error ? lastErr : new Error(...)
CallThrows ==
  /\ wpc = "loop"
  /\ wIdx > wEndpoints
  /\ wLastErr' = exhaustedError(wCaller, wLastErr)
  /\ wpc' = "thrown"
  /\ UNCHANGED << wCaller, wEndpoints, wIdx, timer, wElapsed, wAttempts,
                  wResult, notTimeout >>

NextTimeout ==
  \/ AttemptStarts
  \/ TimePasses
  \/ TimerFires
  \/ FetchRejects
  \/ FetchResolvesNotOk
  \/ FetchResolvesOk
  \/ BodyArrives
  \/ BodyRejects
  \/ SleepEnds
  \/ CallThrows

SpecTimeout == InitTimeout /\ [][NextTimeout]_vars

\* the steps the event loop of the runtime takes by itself: it starts the next
\* iteration, lets time pass, runs a timer that is due, ends a sleep and
\* raises; what the endpoints send, and when, is left open
TimeoutFairness ==
  /\ WF_vars(AttemptStarts)
  /\ WF_vars(TimePasses)
  /\ WF_vars(TimerFires)
  /\ WF_vars(SleepEnds)
  /\ WF_vars(CallThrows)

SpecTimeoutFair == SpecTimeout /\ TimeoutFairness

\* ========================================================================
\* Properties
\* ========================================================================

\* the value of the earliest tag of the list with the given name ("" if none)
FirstTagValue(tags, name) ==
  LET idx == { i \in 1..Len(tags.items) : tags.items[i].name = name }
  IN IF idx = {} THEN ""
     ELSE tags.items[CHOOSE i \in idx : \A j \in idx : i <= j].value

IdentityOf(node) == FirstTagValue(node.tags, "Self-Id")

HeightOf(node) == IF node.block = Null THEN -1 ELSE node.block.height

\* positions of the input records of identity s
GroupOf(s) == { i \in 1..Len(edges) : IdentityOf(edges[i].node) = s }

Identities == { IdentityOf(edges[i].node) : i \in 1..Len(edges) } \ {""}

MaxHeightOf(s) ==
  CHOOSE h \in { HeightOf(edges[i].node) : i \in GroupOf(s) } :
    \A i \in GroupOf(s) : HeightOf(edges[i].node) <= h

\* C1: the output holds exactly one record per distinct non-empty Self-Id of
\* the input; it is an input record of that identity with the maximal block
\* height of its group (null block = -1); records without a Self-Id or with
\* an empty one are not in the output.
C1_OnePerIdentityMaxHeight ==
  gpc = "done" =>
    /\ Len(grouped) = Cardinality(Identities)
    /\ \A j \in 1..Len(grouped) : IdentityOf(grouped[j]) \in Identities
    /\ \A s \in Identities :
         \E j \in 1..Len(grouped) :
           /\ IdentityOf(grouped[j]) = s
           /\ \E i \in GroupOf(s) : edges[i].node = grouped[j]
           /\ HeightOf(grouped[j]) = MaxHeightOf(s)

\* a run over three records: one dropped, and a group whose later record is
\* the higher one
C1_Witness ==
  /\ gpc = "done"
  /\ Len(edges) = 3
  /\ \E k \in 1..Len(edges) : IdentityOf(edges[k].node) = ""
  /\ \E i, j \in 1..Len(edges) :
       /\ i < j
       /\ IdentityOf(edges[i].node) # ""
       /\ IdentityOf(edges[i].node) = IdentityOf(edges[j].node)
       /\ HeightOf(edges[i].node) < HeightOf(edges[j].node)
       /\ \E m \in 1..Len(grouped) : grouped[m] = edges[j].node

\* C2: of several records of one identity that share the maximal height, the
\* earliest of the input is returned, and a repeated run over the same input
\* returns the same output.
C2_TieKeepsEarliest ==
  gpc = "done" =>
    /\ \A j \in 1..Len(grouped) :
         LET s == IdentityOf(grouped[j])
             top == { i \in GroupOf(s) : HeightOf(edges[i].node) = MaxHeightOf(s) }
         IN s \in Identities /\ \A i \in top : grouped[j].id <= i
    /\ grun > 1 => grouped = gprev

\* a second run over an input with two unconfirmed records of one identity
\* and no confirmed one
C2_Witness ==
  /\ gpc = "done"
  /\ grun = 2
  /\ \E i, j \in 1..Len(edges) :
       /\ i < j
       /\ IdentityOf(edges[i].node) # ""
       /\ IdentityOf(edges[i].node) = IdentityOf(edges[j].node)
       /\ HeightOf(edges[i].node) = -1
       /\ HeightOf(edges[j].node) = -1
       /\ MaxHeightOf(IdentityOf(edges[i].node)) = -1
       /\ \E m \in 1..Len(grouped) : grouped[m] = edges[i].node

SortedByHeightDesc ==
  \A j, k \in 1..Len(grouped) : j < k => HeightOf(grouped[j]) >= HeightOf(grouped[k])

FirstSeen(s) == CHOOSE i \in GroupOf(s) : \A j \in GroupOf(s) : i <= j

\* C3 as stated: output ordered by non-increasing height, winners of equal
\* height in the order in which the winning records occur in the input.
C3_TiesByWinnerPosition ==
  gpc = "done" =>
    /\ SortedByHeightDesc
    /\ \A j, k \in 1..Len(grouped) :
         (j < k /\ HeightOf(grouped[j]) = HeightOf(grouped[k]))
           => grouped[j].id < grouped[k].id

\* C3 amended: output ordered by non-increasing height, winners of equal
\* height in the order in which their identities first occur in the input.
C3_TiesByIdentityFirstSeen ==
  gpc = "done" =>
    /\ SortedByHeightDesc
    /\ \A j, k \in 1..Len(grouped) :
         (j < k /\ HeightOf(grouped[j]) = HeightOf(grouped[k]))
           => FirstSeen(IdentityOf(grouped[j])) < FirstSeen(IdentityOf(grouped[k]))

\* two winners of equal height, the first of which occurs later in the input,
\* behind a winner of greater height
C3_Witness ==
  /\ gpc = "done"
  /\ \E j, k \in 1..Len(grouped) :
       /\ j < k
       /\ HeightOf(grouped[j]) = HeightOf(grouped[k])
       /\ grouped[j].id > grouped[k].id

\* the values of the tags named n, in the order of the list
ValuesNamed(items, n) ==
  LET named == SelectSeq(items, LAMBDA tg : tg.name = n)
  IN [i \in 1..Len(named) |-> named[i].value]

ItemsOf(tags) == IF tags.t = "array" THEN tags.items ELSE << >>

NamesOf(items) == { items[i].name : i \in 1..Len(items) }

\* C4: tagsToMap maps each occurring tag name to the values of the tags of
\* that name, in list order with duplicates kept; it has one key per distinct
\* name (none for a null or undefined list); tagFirst gives the value of the
\* earliest tag of the name, undefined when there is none.
C4_TagIndex ==
  LET items == ItemsOf(tTags)
  IN /\ tpc \in {"built", "queried"} =>
          /\ MapSize(tMap) = Cardinality(NamesOf(items))
          /\ \A i, j \in 1..Len(tMap) : tMap[i].k = tMap[j].k => i = j
          /\ \A n \in QueryNames :
               IF n \in NamesOf(items)
               THEN MapHas(tMap, n) /\ MapGet(tMap, n) = ValuesNamed(items, n)
               ELSE ~MapHas(tMap, n)
     /\ tpc = "queried" =>
          LET idx == { i \in 1..Len(items) : items[i].name = tName }
          IN IF idx = {} THEN tFirst = Undefined
             ELSE \E i \in idx : /\ \A j \in idx : i <= j
                                 /\ tFirst = Str(items[i].value)

\* a list with two tags of the queried name and different values, and a tag
\* of another name before them
C4_Witness ==
  /\ tpc = "queried"
  /\ tTags.t = "array"
  /\ Len(tTags.items) = 3
  /\ tTags.items[1].name # tName
  /\ tTags.items[2].name = tName
  /\ tTags.items[3].name = tName
  /\ tTags.items[2].value # tTags.items[3].value
  /\ tFirst = Str(tTags.items[2].value)
  /\ MapSize(tMap) = 2

\* the attempts were made one per endpoint, in list order
AttemptsInOrder == \A i \in 1..Len(qAttempts) : qAttempts[i].endpoint = i

\* C5: when all N endpoints fail, exactly N attempts are made, one per
\* endpoint in list order, and the call raises the error of the last attempt.
C5_ExhaustionRaisesLastError ==
  LET N == Len(qEndpoints)
  IN /\ (Len(qAttempts) = N /\ qpc \notin {"loop", "sleep"}
           /\ \A i \in 1..N : qAttempts[i].err # Undefined)
        => qpc = "thrown"
     /\ qpc = "thrown" =>
          /\ Len(qAttempts) = N
          /\ AttemptsInOrder
          /\ \A i \in 1..N : qAttempts[i].err # Undefined
          /\ qThrown = qAttempts[N].err
          /\ cpc # "returned"

\* three endpoints that all failed, each in a different way
C5_Witness ==
  /\ cpc = "thrown"
  /\ Len(qEndpoints) = 3
  /\ qAttempts[1].resp.net = "reject"
  /\ qAttempts[2].resp.status = 500
  /\ qAttempts[3].resp.status = 200
  /\ qThrown.attempt = 3

\* a response with a success status, a JSON body, no declared error and data
WellFormed(resp) ==
  /\ resp.net = "ok"
  /\ resp.status = 200
  /\ resp.json # BadJson
  /\ resp.json.errors \in {Undefined, Arr(<< >>)}
  /\ resp.json.data \notin {Undefined, Null}

\* C6: if endpoints 1..k-1 fail and endpoint k answers with a well-formed
\* result, exactly k attempts are made, in list order, the result is the data
\* of endpoint k and no later endpoint is contacted.
C6_StopsAtFirstSuccess ==
  /\ \A i \in 1..Len(qAttempts) :
       WellFormed(qAttempts[i].resp) => (i = Len(qAttempts) /\ qpc = "returned")
  /\ qpc = "returned" =>
       LET k == Len(qAttempts)
       IN /\ k >= 1
          /\ AttemptsInOrder
          /\ \A i \in 1..(k - 1) : ~WellFormed(qAttempts[i].resp)
          /\ WellFormed(qAttempts[k].resp)
          /\ qResult = qAttempts[k].resp.json.data
          /\ qThrown = Undefined

\* endpoint 1 failed, endpoint 2 of three answered, the caller has returned
C6_Witness ==
  /\ cpc = "returned"
  /\ Len(qEndpoints) = 3
  /\ Len(qAttempts) = 2
  /\ ~WellFormed(qAttempts[1].resp)
  /\ WellFormed(qAttempts[2].resp)
  /\ qResult = qAttempts[2].resp.json.data

ZeroRecords(resp) == WellFormed(resp) /\ resp.json.data = TxData(<< >>)

\* C8: a well-formed result with zero records is a success: graphqlRequest
\* returns it, tries no further endpoint and raises nothing, and
\* getLatestSelfHead then returns null.
C8_ZeroRecordsIsSuccess ==
  \A i \in 1..Len(qAttempts) :
    ZeroRecords(qAttempts[i].resp) =>
      /\ i = Len(qAttempts)
      /\ qpc = "returned"
      /\ qResult = TxData(<< >>)
      /\ qThrown = Undefined
      /\ cpc # "thrown"
      /\ (cpc = "returned" /\ qCaller = "getLatestSelfHead") => qOut = Null

\* getLatestSelfHead has returned after the first endpoint answered with zero
\* records, further endpoints being left
C8_Witness ==
  /\ cpc = "returned"
  /\ qCaller = "getLatestSelfHead"
  /\ Len(qEndpoints) >= 2
  /\ Len(qAttempts) = 1
  /\ ZeroRecords(qAttempts[1].resp)
  /\ qOut = Null

\* a gateway answer that fetchTxJson can return: success status, JSON body
GatewaySucceeds(resp) ==
  resp.net = "ok" /\ resp.status >= 200 /\ resp.status <= 299
    /\ resp.text \in { "{\"ok\":true}", "null" }

\* a network error or a non-success HTTP status
TransportFailure(resp) ==
  resp.net = "reject" \/ resp.status < 200 \/ resp.status > 299

\* C7: fetchTxJson requests the gateways in list order; a network error or a
\* non-success status moves on to the next gateway; the JSON of the first
\* gateway that succeeds is returned and no later gateway is requested; when
\* all gateways fail the last error is raised.
C7_GatewayFallback ==
  LET k == Len(fAttempts)
      N == Len(fGateways)
  IN /\ \A i \in 1..k : fAttempts[i].gateway = i
     /\ \A i \in 1..k :
          GatewaySucceeds(fAttempts[i].resp) => (i = k /\ fpc = "returned")
     /\ \A i \in 1..k :
          (TransportFailure(fAttempts[i].resp) /\ fpc \in {"returned", "thrown"})
            => IF i < N THEN k > i ELSE fpc = "thrown"
     /\ fpc = "returned" =>
          /\ GatewaySucceeds(fAttempts[k].resp)
          /\ fResult = (IF fAttempts[k].resp.text = "null" THEN Null
                        ELSE [t |-> "object", ok |-> TRUE])
     /\ fpc = "thrown" =>
          /\ k = N
          /\ \A i \in 1..N : ~GatewaySucceeds(fAttempts[i].resp)
          /\ fThrown = fAttempts[N].err

\* gateway 1 of three threw a network error, gateway 2 answered { ok: true }:
\* two requests
C7_Witness ==
  /\ fpc = "returned"
  /\ Len(fGateways) = 3
  /\ Len(fAttempts) = 2
  /\ fAttempts[1].resp.net = "reject"
  /\ fAttempts[2].resp.text = "{\"ok\":true}"
  /\ fResult = [t |-> "object", ok |-> TRUE]

\* C9: in every report returned by verifySelf (the early returns included)
\* ok is true exactly when the report's error list is empty; warnings do not
\* change ok.
C9_OkIffNoErrors ==
  (vpc = "returned" /\ vMode = "self") =>
    (vReport.ok <=> Len(vReport.errors) = 0)

\* a full walk over two ideas that returned ok with warnings and no error
C9_Witness ==
  /\ vpc = "returned"
  /\ vMode = "self"
  /\ vStage = "idea"
  /\ Len(vReport.idea_reports) = 2
  /\ Len(vReport.warnings) > 0
  /\ vReport.errors = << >>
  /\ vReport.ok

\* the idea refs of the walk that name a transaction
CheckedRefs == SelectSeq(vIdeaRefs, LAMBDA ref : Truthy(Get(ref, "tx_id")))

\* C10: a failure on one idea (tx not found, payload not fetchable from any
\* gateway, failing checks) is recorded in that idea's report and does not
\* abort the walk: verifySelf does not end with the error of an idea's
\* payload fetch, and a finished walk has one report per idea, each with ok
\* true exactly when it has no error.
C10_IdeaFailureIsolated ==
  /\ (vpc = "thrown" /\ vThrown.stage = "idea") => vThrown.call # "fetchJsonByTxId"
  /\ (vpc = "returned" /\ vStage = "idea") =>
       /\ Len(vReport.idea_reports) = Len(CheckedRefs)
       /\ \A k \in 1..Len(CheckedRefs) :
            /\ vReport.idea_reports[k].tx_id = Get(CheckedRefs[k], "tx_id")
            /\ vReport.idea_reports[k].ok <=> vReport.idea_reports[k].errors = << >>
            /\ ~vReport.idea_reports[k].ok => ~vReport.ok

\* C11: verifyTx and verifySelf always end by returning a report; a payload
\* that is missing, that no gateway serves or that is not JSON becomes an
\* entry of the report's errors, and the operation never ends with the error
\* thrown by the payload fetch.
C11_PayloadFailureIsReported ==
  ~(vpc = "thrown" /\ vThrown.call = "fetchJsonByTxId")

\* the idea_id strings of the entries of an ideas list, in order
IdeaIdsOf(items) ==
  LET named == SelectSeq(items, LAMBDA it : Get(it, "idea_id").t = "string")
  IN [i \in 1..Len(named) |-> Get(named[i], "idea_id").v]

\* no value occurs twice in the sequence
Distinct(s) == \A i, j \in 1..Len(s) : s[i] = s[j] => i = j

\* the ideas list of the document has two entries with the same idea_id
HasDuplicateIdeaId(json) ==
  /\ Get(json, "ideas").t = "array"
  /\ ~Distinct(IdeaIdsOf(Get(json, "ideas").items))

\* C12: every snapshot validator rejects a snapshot whose ideas list has two
\* entries with the same idea_id: parseSelfSnapshot does not return ok for
\* it and validateSnapshotPayload returns an error for it; a snapshot that
\* a validator accepts has a non-empty ideas list with distinct idea_id.
C12_DuplicateIdeaIdRejected ==
  /\ (ppc = "done" /\ pFn = "parseSelfSnapshot" /\ HasDuplicateIdeaId(pJson)) => ~pOut.ok
  /\ (ppc = "done" /\ pFn = "parseSelfSnapshot" /\ pOut.ok) =>
       /\ Len(Get(pOut.value, "ideas").items) > 0
       /\ Distinct(IdeaIdsOf(Get(pOut.value, "ideas").items))
  /\ (ppc = "done" /\ pFn = "validateSnapshotPayload" /\ HasDuplicateIdeaId(pJson)) =>
       pOut.errors # << >>
  /\ (ppc = "done" /\ pFn = "validateSnapshotPayload" /\ pOut.errors = << >>) =>
       /\ Len(Get(pJson, "ideas").items) > 0
       /\ Distinct(IdeaIdsOf(Get(pJson, "ideas").items))

\* the idea_id values that the ideas list of a document declares
DeclaredIds(json) ==
  IF Get(json, "ideas").t = "array"
  THEN { IdeaIdsOf(Get(json, "ideas").items)[i] :
           i \in 1..Len(IdeaIdsOf(Get(json, "ideas").items)) }
  ELSE {}

\* the edge entries of a document
EdgesOf(json) == IF Get(json, "edges").t = "array" THEN Get(json, "edges").items ELSE << >>

\* an end of the edge is not a declared idea_id
RefersUndeclared(json, edge) ==
  \E end \in {"from_idea_id", "to_idea_id"} :
    ~(Get(edge, end).t = "string" /\ Get(edge, end).v \in DeclaredIds(json))

\* the type of the edge is not one of the five edge types
HasUnknownType(edge) ==
  ~(Get(edge, "type").t = "string"
      /\ Get(edge, "type").v \in
           {"supports", "contradicts", "refines", "depends-on", "derived-from"})

\* how often x occurs in the sequence
Count(s, x) == Cardinality({ i \in 1..Len(s) : s[i] = x })

UnknownIdsMessage(edge) == "Edge references unknown idea ids: " \o jsonStringifyEdge(edge)

InvalidTypeMessage(edge) == "Invalid edge type: " \o Template(Get(edge, "type"))

\* C13: validateSnapshotPayload returns one unknown-idea-ids error for every
\* edge with an end that is not a declared idea_id and one invalid-type
\* error for every edge whose type is not one of the five types, for all
\* edges of the list (as many errors as offending edges); verifyTx of a
\* SelfSnapshot transaction with such an edge returns ok = false.
C13_StrictEdgeErrorsAccumulate ==
  (ppc = "done" /\ pFn \in {"validateSnapshotPayload", "verifyTx"}) =>
    \A i \in 1..Len(EdgesOf(pJson)) :
      LET edge == EdgesOf(pJson)[i]
          same(test(_), message(_)) ==
            { j \in 1..Len(EdgesOf(pJson)) :
                /\ isRecord(EdgesOf(pJson)[j])
                /\ test(EdgesOf(pJson)[j])
                /\ message(EdgesOf(pJson)[j]) = message(edge) }
          undeclared(e) == RefersUndeclared(pJson, e)
      IN isRecord(edge) =>
           /\ (pFn = "validateSnapshotPayload" /\ RefersUndeclared(pJson, edge)) =>
                Count(pOut.errors, UnknownIdsMessage(edge))
                  >= Cardinality(same(undeclared, UnknownIdsMessage))
           /\ (pFn = "validateSnapshotPayload" /\ HasUnknownType(edge)) =>
                Count(pOut.errors, InvalidTypeMessage(edge))
                  >= Cardinality(same(HasUnknownType, InvalidTypeMessage))
           /\ (pFn = "verifyTx" /\ pOut.entity = Str("SelfSnapshot")
                 /\ (RefersUndeclared(pJson, edge) \/ HasUnknownType(edge))) =>
                ~pOut.ok

\* a snapshot whose first edge is of an unknown type and whose second edge
\* names an undeclared idea: both errors are returned, and verifyTx is not ok
C13_Witness ==
  /\ ppc = "done"
  /\ pFn = "validateSnapshotPayload"
  /\ DeclaredIds(pJson) = {"idea1", "idea2"}
  /\ EdgesOf(pJson) = << Edge("idea2", "idea1", "likes"), Edge("idea1", "zz", "refines") >>
  /\ pOut.errors = << InvalidTypeMessage(EdgesOf(pJson)[1]),
                      UnknownIdsMessage(EdgesOf(pJson)[2]) >>

\* C14: parseSelfSnapshot accepts a snapshot with an edge that names an
\* undeclared idea and drops that edge: every edge of the parsed value has
\* its from_idea_id and to_idea_id among the idea_id values of the parsed
\* ideas.
C14_LenientDropsUndeclaredEdges ==
  (ppc = "done" /\ pFn = "parseSelfSnapshot" /\ pOut.ok) =>
    \A i \in 1..Len(EdgesOf(pOut.value)) :
      ~RefersUndeclared(pOut.value, EdgesOf(pOut.value)[i])

\* one of self_id, name, snapshot_tx is absent, not a string or empty
LacksRequiredHeadField(json) ==
  \E key \in {"self_id", "name", "snapshot_tx"} :
    ~(Get(json, key).t = "string" /\ Get(json, key).v # "")

\* C15: a head payload in which self_id, name or snapshot_tx is missing, not
\* a string or the empty string is rejected by parseSelfHead (ok false) and
\* by validateHeadPayload (an error is returned).
C15_HeadRequiresNonEmptyStrings ==
  (ppc = "done" /\ LacksRequiredHeadField(pJson)) =>
    /\ pFn = "parseSelfHead" => ~pOut.ok
    /\ pFn = "validateHeadPayload" => pOut.errors # << >>

\* the tag list contains the pair name = value
HasTagPair(tags, name, value) ==
  \E i \in 1..Len(tags.items) : tags.items[i] = Tag(name, value)

\* the three namespace pairs are in the tag list
HasNamespacePairs(tags) ==
  /\ HasTagPair(tags, "App-Name", "ar//afterlife")
  /\ HasTagPair(tags, "App-Tag", "afterlife")
  /\ HasTagPair(tags, "Schema-Version", "1")

NamespaceMessage ==
  "Missing required Afterlife namespace tags (App-Name/App-Tag/Schema-Version)"

\* C16: verifyTx passes the namespace check of a transaction (no namespace
\* error in its report) exactly when the transaction's tag list contains
\* the pairs App-Name=ar//afterlife, App-Tag=afterlife and Schema-Version=1,
\* also when one of the names occurs several times.
C16_NamespaceIffPairsPresent ==
  (vpc = "tx_done" /\ vStage = "single" /\ vMeta # Undefined) =>
    (HasNamespacePairs(vMeta.tags)
       <=> \A i \in 1..Len(vTxReport.errors) : vTxReport.errors[i] # NamespaceMessage)

\* the position of an entity in the publish sequence
UploadRank(entity) ==
  CASE entity = "Idea" -> 1 [] entity = "SelfSnapshot" -> 2 [] entity = "SelfHead" -> 3

\* the calls of runSave made for the entity
SavesOf(entity) == { i \in 1..Len(saves) : saves[i].entity = entity }

\* the call returned a result with a tx id
GaveTxId(save) == ~save.thrown /\ Truthy(Get(save.result, "tx_id"))

\* the ideas of the input that carry no tx id
IdeasToUpload ==
  { k \in 1..Len(Get(input, "ideas").items) :
      ~Truthy(Get(Get(input, "ideas").items[k], "tx_id")) }

\* C17: the uploads of a run are made in the order Idea(s), Snapshot, Head;
\* the Snapshot is uploaded only after every idea without a tx id was
\* uploaded and returned a tx id, the Head only after the Snapshot upload
\* returned a tx id; there is at most one Snapshot and one Head upload; an
\* upload that fails or returns no tx id is the last upload of the run.
C17_UploadOrder ==
  /\ \A i, j \in 1..Len(saves) :
       i < j => UploadRank(saves[i].entity) <= UploadRank(saves[j].entity)
  /\ Cardinality(SavesOf("SelfSnapshot")) <= 1
  /\ Cardinality(SavesOf("SelfHead")) <= 1
  /\ \A i \in 1..Len(saves) : i < Len(saves) => GaveTxId(saves[i])
  /\ SavesOf("SelfSnapshot") # {} =>
       Cardinality({ i \in SavesOf("Idea") : GaveTxId(saves[i]) })
         = Cardinality(IdeasToUpload)
  /\ \A j \in SavesOf("SelfHead") :
       j > 1 /\ saves[j - 1].entity = "SelfSnapshot" /\ GaveTxId(saves[j - 1])

\* a finished run that uploaded two ideas, then the snapshot, then the head
C17_Witness ==
  /\ bpc = "printed"
  /\ Len(saves) = 4
  /\ [i \in 1..4 |-> saves[i].entity] = << "Idea", "Idea", "SelfSnapshot", "SelfHead" >>
  /\ \A i \in 1..4 : GaveTxId(saves[i])

\* the ideas of the input file
InputIdeas == Get(input, "ideas").items

\* the tx ids returned by the idea uploads, in the order of the uploads
IdeaUploadTxIds ==
  LET done == SelectSeq(saves, LAMBDA s : s.entity = "Idea" /\ GaveTxId(s))
  IN [i \in 1..Len(done) |-> Get(done[i].result, "tx_id")]

\* how many of the first k ideas of the input carry no tx id
ToUploadUpTo(k) == Cardinality({ i \in IdeasToUpload : i <= k })

\* C18: in a run that is no dry run, the snapshot payload (as built and as
\* uploaded) lists one (idea_id, tx_id) entry per input idea in input order;
\* an idea that carries a tx id is not uploaded and keeps that tx id, every
\* other idea has the tx id that its upload returned; the head payload's
\* snapshot_tx is the tx id that the snapshot upload of the run returned.
C18_PayloadsReferenceUploads ==
  /\ (~dryRun /\ snapshotPayload # Undefined) =>
       LET listed == Get(snapshotPayload, "ideas").items
       IN /\ Len(listed) = Len(InputIdeas)
          /\ Len(IdeaUploadTxIds) = Cardinality(IdeasToUpload)
          /\ \A k \in 1..Len(InputIdeas) :
               /\ Get(listed[k], "idea_id") = Get(InputIdeas[k], "idea_id")
               /\ Get(listed[k], "tx_id") =
                    IF k \in IdeasToUpload THEN IdeaUploadTxIds[ToUploadUpTo(k)]
                    ELSE Get(InputIdeas[k], "tx_id")
          /\ \A i \in SavesOf("SelfSnapshot") :
               Get(saves[i].body, "ideas").items = listed
  /\ (~dryRun /\ headPayload # Undefined) =>
       /\ \E i \in SavesOf("SelfSnapshot") :
            GaveTxId(saves[i]) /\ Get(headPayload, "snapshot_tx") = Get(saves[i].result, "tx_id")
       /\ \A j \in SavesOf("SelfHead") :
            Get(saves[j].body, "snapshot_tx") = Get(headPayload, "snapshot_tx")

\* a finished run over an idea with a tx id followed by an idea without:
\* the first keeps i1, the second gets the tx id of the only idea upload,
\* and the head names the uploaded snapshot
C18_Witness ==
  /\ bpc = "printed"
  /\ ~dryRun
  /\ Len(InputIdeas) = 2
  /\ IdeasToUpload = {2}
  /\ Get(snapshotPayload, "ideas").items
       = << IdeaRef(IdeaId(1), IdeaTx(1)), IdeaRef(IdeaId(2), "u1") >>
  /\ Get(headPayload, "snapshot_tx") = Str("u2")
  /\ Len(saves) = 3

\* the tags object holds the pair name = value
TagIs(tags, name, value) == name \in DOMAIN tags /\ tags[name] = value

\* C19: every upload of a run (each Idea, the Snapshot, the Head) is tagged
\* App-Name=ar//afterlife, App-Tag=afterlife, Schema-Version=1, Entity = its
\* own entity type and Self-Id = the input's self_id, also for inputs that
\* give extra tags (idea.tags, head_tags).
C19_UploadsCarryRequiredTags ==
  \A i \in 1..Len(saves) :
    /\ TagIs(saves[i].tags, "App-Name", Str("ar//afterlife"))
    /\ TagIs(saves[i].tags, "App-Tag", Str("afterlife"))
    /\ TagIs(saves[i].tags, "Schema-Version", Str("1"))
    /\ TagIs(saves[i].tags, "Entity", Str(saves[i].entity))
    /\ TagIs(saves[i].tags, "Self-Id", Get(input, "self_id"))

\* the calls of getLatestHeadTx made by the verification loop
PollLookups == SelectSeq(lookups, LAMBDA l : l.at = "poll")

\* the head was uploaded and its tx id returned
HeadPublished == ~dryRun /\ headTx # Undefined

\* C20: the verification loop calls getLatestHeadTx at most verify_attempts
\* times and makes no call after one that returned the new head tx id; when
\* no call returns it the run ends with ok=true, matched=false and
\* attempts=verify_attempts; once the head is uploaded the run does not end
\* in failure, whatever the lookups do.
C20_PollNeverFailsPublish ==
  /\ Len(PollLookups) <= verifyAttempts
  /\ \A i \in 1..Len(PollLookups) :
       (~PollLookups[i].thrown /\ PollLookups[i].value = headTx) => i = Len(PollLookups)
  /\ (bpc = "printed" /\ HeadPublished /\ verify /\ verifyAttempts >= 1
        /\ \A i \in 1..Len(PollLookups) : PollLookups[i].value # headTx) =>
       /\ bOut.ok
       /\ bOut.verification.matched = Bool(FALSE)
       /\ bOut.verification.attempts = verifyAttempts
  /\ HeadPublished => bpc \notin {"thrown", "failed"}

\* the input names a parent snapshot (the field is present and not null)
ParentGiven == Get(input, "parent_snapshot_tx").t \notin {"null", "undefined"}

\* the calls of getLatestHeadTx made to find the parent
ParentLookups == SelectSeq(lookups, LAMBDA l : l.at = "parent")

\* the snapshot_tx of the payload of the latest head, null when there is no
\* latest head or its payload has no string snapshot_tx
LatestSnapshotOrNull ==
  IF prior # Null /\ prior.payload # Undefined
       /\ Get(prior.payload, "snapshot_tx").t = "string"
  THEN Get(prior.payload, "snapshot_tx") ELSE Null

\* C21: the parent link of the snapshot payload is the input's
\* parent_snapshot_tx when given, and then no lookup of the latest head is
\* made; otherwise, when auto_parent_from_latest is requested, it is the
\* snapshot_tx string of the payload of the latest head, looked up once
\* before any snapshot upload, or null when there is none; otherwise null,
\* without a lookup.
C21_ParentLink ==
  snapshotPayload # Undefined =>
    LET link == Get(snapshotPayload, "parent_snapshot_tx")
    IN /\ \A i \in SavesOf("SelfSnapshot") :
            Get(saves[i].body, "parent_snapshot_tx") = link
       /\ IF ParentGiven
          THEN link = Get(input, "parent_snapshot_tx") /\ Len(ParentLookups) = 0
          ELSE IF asBool(Get(input, "auto_parent_from_latest"), FALSE)
          THEN link = LatestSnapshotOrNull /\ Len(ParentLookups) = 1
          ELSE link = Null /\ Len(ParentLookups) = 0

\* the field is missing, no string, or a string of white space only
MissingOrBlank(v) == v.t # "string" \/ v.v \in {"", " "}

\* the input has one of the defects that the local validation names
InputDefect(in) ==
  \/ MissingOrBlank(Get(in, "self_id"))
  \/ MissingOrBlank(Get(in, "name"))
  \/ Get(in, "ideas") = Arr(<< >>)
  \/ HasDuplicateIdeaId(in)
  \/ /\ Get(in, "ideas").t = "array"
     /\ \E i \in 1..Len(Get(in, "ideas").items) :
          /\ Get(Get(in, "ideas").items[i], "tx_id") = Undefined
          /\ Get(Get(in, "ideas").items[i], "content") = Undefined
  \/ \E i \in 1..Len(EdgesOf(in)) :
       RefersUndeclared(in, EdgesOf(in)[i]) \/ HasUnknownType(EdgesOf(in)[i])

\* C22: for an input with a missing or blank self_id or name, an empty ideas
\* list, a duplicate idea_id, an idea with neither tx_id nor content, an edge
\* naming an undeclared idea id or an edge of a type outside the five, the
\* run makes no upload and no lookup, never gets past validation, prints no
\* result, and ends with an error and exit code 1.
C22_InvalidInputNoUpload ==
  InputDefect(input) =>
    /\ saves = << >>
    /\ lookups = << >>
    /\ bpc \in {"start", "thrown", "failed"}
    /\ bOut = Undefined
    /\ bpc # "start" => bErr = Str(validateInput(input)) /\ validateInput(input) # ""
    /\ bpc = "failed" => bExit = 1

\* a run over an input with a duplicate idea_id has ended with exit code 1
\* and made no upload
C22_Witness ==
  /\ bpc = "failed"
  /\ HasDuplicateIdeaId(input)
  /\ saves = << >>
  /\ lookups = << >>
  /\ bExit = 1

\* C23: a dry run never calls runSave and makes no lookup in the
\* verification loop, for every input; the result it prints names
\* <dry-run:idea_id> for each idea without a tx id and the given tx id for
\* the others, every idea with published=false, <dry-run:snapshot> for the
\* snapshot and <dry-run:selfhead> for the head, and the head payload names
\* the snapshot placeholder.
C23_DryRunUploadsNothing ==
  dryRun =>
    /\ saves = << >>
    /\ PollLookups = << >>
    /\ bpc = "printed" =>
         /\ bOut.dry_run
         /\ bOut.publish.snapshot_tx = Str("<dry-run:snapshot>")
         /\ bOut.publish.head_tx = Str("<dry-run:selfhead>")
         /\ Get(bOut.payloads.head, "snapshot_tx") = Str("<dry-run:snapshot>")
         /\ bOut.verification.attempts = 0
         /\ Len(bOut.publish.idea_txs) = Len(InputIdeas)
         /\ \A k \in 1..Len(InputIdeas) :
              /\ bOut.publish.idea_txs[k].idea_id = Get(InputIdeas[k], "idea_id")
              /\ bOut.publish.idea_txs[k].published = FALSE
              /\ bOut.publish.idea_txs[k].tx_id =
                   IF k \in IdeasToUpload
                   THEN Str("<dry-run:" \o Get(InputIdeas[k], "idea_id").v \o ">")
                   ELSE Get(InputIdeas[k], "tx_id")

\* a dry run with verification asked for has printed its result for an idea
\* with a tx id followed by an idea without one
C23_Witness ==
  /\ bpc = "printed"
  /\ dryRun
  /\ verify
  /\ verifyAttempts >= 1
  /\ Len(InputIdeas) = 2
  /\ IdeasToUpload = {2}
  /\ bOut.publish.idea_txs[2].tx_id = Str("<dry-run:idea2>")
  /\ saves = << >>

\* the gateway answered with a success status and a body that is no JSON
UnparsableSuccess(resp) ==
  resp.net = "ok" /\ resp.status \in 200..299 /\ resp.text \in { "<html>", "" }

\* C24: in fetchTxJson an attempt whose response has a success status and a
\* body that is not valid JSON is the last attempt of the call: no later
\* gateway is contacted, the call does not return a value, and the error it
\* raises is the parse error of that attempt.
C24_ParseFailureIsHard ==
  \A i \in 1..Len(fAttempts) :
    UnparsableSuccess(fAttempts[i].resp) =>
      /\ i = Len(fAttempts)
      /\ fpc # "returned"
      /\ fpc = "thrown" => fThrown = fAttempts[i].err

\* the transaction that the printed result is about
FetchedTx == uChain[CHOOSE i \in 1..Len(uChain) : Str(uChain[i].id) = uOut.tx_id]

\* the transaction has a tag of that name
HasTag(tx, name) == \E i \in 1..Len(tx.tags) : tx.tags[i].name = name

\* the value of the transaction's tag of that name
TagValue(tx, name) == tx.tags[CHOOSE i \in 1..Len(tx.tags) : tx.tags[i].name = name].value

\* the expected hash: the first present of --expected_hash, the
\* Original-SHA256 tag, the Content-SHA256 tag; "" when none is present
ExpectedHash ==
  IF Get(uArgs, "expected_hash") # Undefined THEN Get(uArgs, "expected_hash").v
  ELSE IF HasTag(FetchedTx, "Original-SHA256") THEN TagValue(FetchedTx, "Original-SHA256")
  ELSE IF HasTag(FetchedTx, "Content-SHA256") THEN TagValue(FetchedTx, "Content-SHA256")
  ELSE ""

\* C25: a fetch that prints a document reports integrity_check.actual = the
\* hash of the decoded bytes; with an expected hash present (the caller's,
\* else the Original-SHA256 tag, else the Content-SHA256 tag of the
\* transaction) matched is true exactly when it equals that hash and false
\* otherwise, and the run still ends with exit code 0; with none of the
\* three present matched is null.
C25_IntegrityCheck ==
  (upc = "printed" /\ uOut.found) =>
    /\ uExit = 0
    /\ uOut.integrity_check.actual = uOut.sha256
    /\ IF ExpectedHash # ""
       THEN uOut.integrity_check.matched = Bool(ExpectedHash = uOut.sha256)
       ELSE uOut.integrity_check.matched = Null

\* the codecs that the transaction's tags declare: gzip or brotli named by
\* Content-Encoding or Stored-Encoding
DeclaredCodecs(tx) ==
  { c \in {"gzip", "br"} :
      \E n \in {"Content-Encoding", "Stored-Encoding"} :
        /\ HasTag(tx, n)
        /\ TagValue(tx, n) \in (IF c = "gzip" THEN {"gzip", "GZIP"} ELSE {"br", "brotli"}) }

\* the tags declare at most one codec and the stored bytes are compressed
\* with it, or not compressed when they declare none
StoredAsDeclared(tx) ==
  \/ DeclaredCodecs(tx) = {} /\ tx.data.codec = "none"
  \/ DeclaredCodecs(tx) = {tx.data.codec}

\* C26: in a fetch by tx id and in a fetch by tags, without
\* --content_encoding, of a transaction whose stored bytes are compressed as
\* its tags declare: when Content-Encoding or Stored-Encoding declares gzip
\* or brotli the run prints a result, and the bytes hashed, counted and
\* written are the decompressed bytes; with no or an unknown encoding they
\* are the stored bytes.
C26_DecodesDeclaredEncoding ==
  /\ (upc = "printed" /\ uOut.found /\ Get(uArgs, "content_encoding") = Undefined
        /\ StoredAsDeclared(FetchedTx)) =>
       LET plain == Buffer("none", FetchedTx.data.text)
       IN /\ uOut.sha256 = sha256Hex(plain)
          /\ uOut.bytes = byteLength(plain)
          /\ uOut.raw_sha256 = sha256Hex(FetchedTx.data)
          /\ Get(uArgs, "output_path") # Undefined => uWritten = plain
  /\ (upc = "decode" /\ Get(uArgs, "content_encoding") = Undefined
        /\ \E i \in 1..Len(uChain) :
             Str(uChain[i].id) = uTxId /\ StoredAsDeclared(uChain[i])) =>
       ~decodedOf(uFetched.buffer, uArgs, uTxTags).thrown

\* the override is absent, empty or white space only
BlankOverride(item) == item = Null \/ item.v \in { "", " " }

\* the override without the white space around it
OverrideText(item) == IF item.v = " https://my.gw " THEN "https://my.gw" ELSE item.v

\* C27: every call of getGateways (by a fetch or by a link of the page)
\* returns, for the override stored when the call is made: the override,
\* without white space around it, followed by https://arweave.net and
\* https://ar-io.dev when the override is a non-blank string; exactly
\* https://arweave.net, https://ar-io.dev when it is absent, empty or white
\* space only, or when there is no localStorage; saving or clearing the
\* override shows in the next call and earlier overrides leave no trace in
\* the defaults.
C27_GatewayList ==
  [][Len(gatewayCalls') > Len(gatewayCalls) =>
       gatewayCalls'[Len(gatewayCalls')].list =
         IF hasLocalStorage /\ ~BlankOverride(afterlifeGatewayUrl')
         THEN << OverrideText(afterlifeGatewayUrl'), "https://arweave.net", "https://ar-io.dev" >>
         ELSE << "https://arweave.net", "https://ar-io.dev" >>]_vars

\* a fetch used the override https://my.gw first; after the override was
\* cleared the next fetch used the two defaults only
C27_Witness ==
  /\ Len(gatewayCalls) = 2
  /\ gatewayCalls[1].by = "fetchTxJson"
  /\ gatewayCalls[1].list = << "https://my.gw", "https://arweave.net", "https://ar-io.dev" >>
  /\ gatewayCalls[2].by = "fetchTxJson"
  /\ gatewayCalls[2].item = Null
  /\ gatewayCalls[2].list = << "https://arweave.net", "https://ar-io.dev" >>

\* the query of the gateway returned at least one transaction
Matched(query) == ~query.thrown /\ Len(query.nodes) > 0

\* the run is a fetch by tags that has queried the gateways
FetchByTags == Get(uArgs, "tx_id") = Undefined /\ upc \notin {"start", "exited"}

\* C28: in a fetch by tags the gateways are queried in list order, each at
\* most once; a query that returns at least one transaction is the last
\* query and its first node is the transaction of the run; once every
\* gateway has failed or returned no transaction the run prints ok=true,
\* found=false with exit code 0, downloads nothing and raises nothing.
C28_TagQueryFallback ==
  FetchByTags =>
    /\ Len(uQueries) <= Len(uGateways)
    /\ \A i \in 1..Len(uQueries) :
         /\ uQueries[i].gateway = uGateways[i]
         /\ Matched(uQueries[i]) =>
              /\ i = Len(uQueries)
              /\ uTxId = Str(uQueries[i].nodes[1].id)
              /\ uResolvedBy = Str(uGateways[i])
    /\ (Len(uQueries) = Len(uGateways) /\ \A i \in 1..Len(uQueries) : ~Matched(uQueries[i])) =>
         /\ uDownloads = << >>
         /\ upc \in {"resolve", "printed"}
         /\ uErr = Undefined
         /\ upc = "printed" => uOut.ok /\ ~uOut.found /\ uExit = 0
    /\ (uDownloads # << >> \/ (upc = "printed" /\ uOut.found)) =>
         \E i \in 1..Len(uQueries) : Matched(uQueries[i])

\* three gateways: the first failed, the second and the third returned no
\* transaction; the run printed found=false without a download
C28_Witness ==
  /\ FetchByTags
  /\ upc = "printed"
  /\ Len(uGateways) = 3
  /\ Len(uQueries) = 3
  /\ uQueries[1].thrown
  /\ ~uQueries[2].thrown /\ ~uQueries[3].thrown
  /\ ~uOut.found
  /\ uDownloads = << >>

\* ------------------------------------------------------------------------
\* Save script: uploads and quotes
\* ------------------------------------------------------------------------
\* a quote of zero winc
ZeroQuote(winc) == winc \in { Str("0"), Num(0) }

\* the run of the save script is over
SaveOver == spc \in { "exited", "printed", "failed" }

\* C29: the save script never performs a paid upload: every upload request that
\* was sent, raw or signed, was sent on a path whose preflight quote for the
\* payload is zero, and a run in which no path had a zero quote ends with an
\* error and without any upload request.
C29_NoPaidUpload ==
  /\ \A i \in 1..Len(sUploads) : ZeroQuote(sUploads[i].winc)
  /\ (SaveOver /\ ~ZeroQuote(sQuote) /\ ~ZeroQuote(signedQuote))
       => (sExit > 0 /\ sUploads = << >>)

\* ------------------------------------------------------------------------
\* Requests with a timeout: termination
\* ------------------------------------------------------------------------
\* the call of graphqlRequest or fetchTxJson has returned or raised
CallOver == wpc \in { "returned", "thrown" }

\* C30: every call of graphqlRequest and of fetchTxJson terminates whatever the
\* endpoints do: no attempt, the reading of the response body included, lasts
\* longer than the per-attempt timeout, and the call eventually returns or
\* raises.
C30_CallTerminates ==
  /\ [](wElapsed <= TimeoutTicks)
  /\ <>CallOver

\* ------------------------------------------------------------------------
\* GraphQL client: protocol failures
\* ------------------------------------------------------------------------
\* an answer that arrived and is a protocol failure: a status that is not a
\* success, a body that declares errors, a body without data
NonSuccessStatus(resp) == resp.net = "ok" /\ ~(resp.status \in 200..299)

DeclaresErrors(resp) ==
  /\ resp.net = "ok" /\ resp.status \in 200..299 /\ resp.json # BadJson
  /\ resp.json.errors \notin {Undefined, Arr(<< >>)}

LacksData(resp) ==
  /\ resp.net = "ok" /\ resp.status \in 200..299 /\ resp.json # BadJson
  /\ resp.json.data \in {Undefined, Null}

ProtocolFailure(resp) == NonSuccessStatus(resp) \/ DeclaresErrors(resp) \/ LacksData(resp)

\* C31: in graphqlRequest a non-success status, a body with a non-empty errors
\* list (also one that carries data) and a body without data are failed
\* attempts like a transport failure: the attempt records an error, the loop
\* goes on to the next endpoint (or raises after the last one), and the answer
\* is never the result of the call.
C31_ProtocolFailureFallsBack ==
  LET N == Len(qEndpoints)
      k == Len(qAttempts)
  IN \A i \in 1..k :
       ProtocolFailure(qAttempts[i].resp) =>
         /\ qAttempts[i].err # Undefined
         /\ qAttempts[i].endpoint = i
         /\ qpc # "returned" \/ i < k
         /\ i < k => qAttempts[i + 1].endpoint = i + 1
         /\ (i = k /\ i < N) =>
              \/ qpc = "sleep" /\ qIdx = i
              \/ qpc = "loop" /\ qIdx = i + 1
         /\ (i = k /\ i = N) => qpc \in {"sleep", "loop", "thrown"}

\* a call over three endpoints: the first answered 500, the second declared
\* errors next to its data, the third sent no data, and the call has raised
C31_Witness ==
  /\ qpc = "thrown"
  /\ Len(qAttempts) = 3
  /\ NonSuccessStatus(qAttempts[1].resp)
  /\ DeclaresErrors(qAttempts[2].resp) /\ ~LacksData(qAttempts[2].resp)
  /\ LacksData(qAttempts[3].resp) /\ ~DeclaresErrors(qAttempts[3].resp)

\* ------------------------------------------------------------------------
\* Chain verifier: the stages of the walk
\* ------------------------------------------------------------------------
\* the latest-head lookup of verifySelf answered and found no head
NoHeadFound ==
  /\ vMode = "self"
  /\ vLatest # Undefined
  /\ ~Truthy(Get(Obj(vLatest), "id"))

\* the calls of the walk made at a stage
CallsAt(stage) == SelectSeq(vCalls, LAMBDA c : c.stage = stage)

\* C32: when the latest-head lookup of verifySelf finds no head, the walk ends
\* at once: the report is ok=false with the single error that no discoverable
\* head exists, the lookup is the only call made, no payload is fetched and no
\* head, snapshot or idea check is run.
C32_NoHeadIsTerminal ==
  NoHeadFound =>
    /\ vpc = "returned"
    /\ vReport.ok = FALSE
    /\ vReport.errors = << "No discoverable SelfHead found for Self-Id" >>
    /\ vReport.self_id = vArg
    /\ vExit \in {-1, 2}
    /\ Len(vCalls) = 1
    /\ vCalls[1].fn = "postGraphql" /\ vCalls[1].stage = "latest"
    /\ \A i \in 1..Len(vCalls) : vCalls[i].fn # "fetchJsonByTxId"
    /\ vTxReport = Undefined
    /\ vErrors = << >>
    /\ vIdeaReports = << >>

\* a ledger without a head for the identity: the run has exited with status 2
C32_Witness ==
  /\ NoHeadFound
  /\ ledger.latest = Null
  /\ vExit = 2

\* the head payload stored for the head that the lookup found
HeadPayloadStored == payloadOf(vLatest.id.v)

\* the head stage is over and verifySelf is about to fetch the head payload
HeadStageChecked == vMode = "self" /\ vStage = "head" /\ vpc = "head_payload"

\* the errors of the head report, each with the prefix of the head stage
HeadErrorsPrefixed ==
  /\ Len(vErrors) = Len(vTxReport.errors)
  /\ \A i \in 1..Len(vErrors) : vErrors[i] = "Head: " \o vTxReport.errors[i]

\* the walk has returned after the head stage
StoppedAfterHead == vMode = "self" /\ vStage = "head" /\ vpc = "returned"

\* C33: in verifySelf the errors of the head stage are accumulated with the
\* prefix of the head stage and do not stop the walk: whenever the head payload
\* holds a string snapshot_tx the walk does not end before the idea stage, the
\* snapshot stage starts with the head errors kept, and a finished walk
\* reports them next to its idea reports; the walk ends after the head stage
\* only when snapshot_tx is not a string in the head payload, and then it
\* returns ok=false without a snapshot or idea check.
C33_HeadErrorsDoNotStop ==
  /\ []((vMode = "self" /\ vStage \in {"head", "snapshot"} /\ vpc \in {"returned", "thrown"})
          => Get(HeadPayloadStored, "snapshot_tx").t # "string")
  /\ [](HeadStageChecked => HeadErrorsPrefixed)
  /\ [](StoppedAfterHead =>
          /\ Get(HeadPayloadStored, "snapshot_tx").t # "string"
          /\ vReport.ok = FALSE
          /\ vReport.errors = vErrors
          /\ vErrors[Len(vErrors)] = "Head payload missing snapshot_tx"
          /\ \A i \in 1..(Len(vErrors) - 1) : vErrors[i] = "Head: " \o vTxReport.errors[i]
          /\ CallsAt("snapshot") = << >>
          /\ CallsAt("idea") = << >>
          /\ vIdeaReports = << >>)
  /\ []((vMode = "self" /\ vStage \in {"snapshot", "idea"}) =>
          /\ Get(HeadPayloadStored, "snapshot_tx").t = "string"
          /\ vSnapshotTx = Get(HeadPayloadStored, "snapshot_tx").v)
  /\ [][(HeadStageChecked /\ vpc' \notin {"head_payload", "thrown"})
          => IF Get(HeadPayloadStored, "snapshot_tx").t = "string"
             THEN vStage' = "snapshot" /\ vpc' = "tx_meta" /\ vErrors' = vErrors
                    /\ vTx' = Get(HeadPayloadStored, "snapshot_tx").v
             ELSE vStage' = "head" /\ vpc' = "returned"]_vars
  /\ []((vpc = "returned" /\ vStage = "idea") =>
          /\ \A i \in 1..Len(vReport.errors) : vReport.errors[i] = vErrors[i]
          /\ Len(vReport.idea_reports) = Len(CheckedRefs))

\* the payload stored at the snapshot_tx of the head, and the errors the
\* strict snapshot validation finds in it
SnapshotStored == payloadOf(vSnapshotTx)

SnapshotRuleErrors == validateSnapshotPayload(SnapshotStored)

\* the message is one of the errors of the chain report
Reported(message) == \E i \in 1..Len(vReport.errors) : vReport.errors[i] = message

\* C34: in verifySelf the transaction named by snapshot_tx is checked with the
\* namespace-tag check and the strict snapshot validation whatever Entity tag it
\* carries: the report of a finished walk holds, with the prefix of the
\* snapshot stage, every error that validateSnapshotPayload finds in the
\* payload stored at snapshot_tx, so a payload that breaks a snapshot rule
\* makes the chain report fail.
C34_SnapshotAlwaysValidated ==
  (vMode = "self" /\ vpc = "returned" /\ vStage = "idea"
     /\ metaOf(vSnapshotTx) # Undefined) =>
    /\ \A k \in 1..Len(SnapshotRuleErrors) : Reported("Snapshot: " \o SnapshotRuleErrors[k])
    /\ SnapshotRuleErrors # << >> => ~vReport.ok

\* ------------------------------------------------------------------------
\* Chain verifier: the entity of a single checked transaction
\* ------------------------------------------------------------------------
\* verifyTx has returned its report for an indexed transaction
SingleReported == vMode = "tx" /\ vpc = "returned" /\ vMeta # Undefined

\* the tags of the checked transaction and the value of its Entity tag
SingleTags == verifyTagsToMap(vMeta.tags)

EntityTag == verifyTagFirst(SingleTags, "Entity")

KnownEntities == { Str("SelfHead"), Str("SelfSnapshot"), Str("Idea") }

NamespaceError == "Missing required Afterlife namespace tags (App-Name/App-Tag/Schema-Version)"

EntityWarning == "Unknown or missing entity for tx " \o vTx

\* the errors a report may hold on account of the namespace tags alone
NamespaceErrorsOnly ==
  vReport.errors = IF hasAfterlifeNamespace(SingleTags) THEN << >> ELSE << NamespaceError >>

\* C35 as claimed: a transaction whose Entity tag is absent or none of SelfHead,
\* SelfSnapshot, Idea gets the entity warning and no error on account of its
\* entity, so with the three namespace tags present it is reported ok=true.
C35_UnknownOrAbsentEntityWarns ==
  (SingleReported /\ EntityTag \notin KnownEntities) =>
    /\ vReport.warnings = << EntityWarning >>
    /\ NamespaceErrorsOnly
    /\ hasAfterlifeNamespace(SingleTags) => vReport.ok

\* C35 as amended: a transaction whose Entity tag is present and none of the
\* three gets the entity warning and no error on account of its entity, and is
\* ok=true when the three namespace tags are present; a transaction without an
\* Entity tag gets the same warning and, next to any namespace error, the error
\* "Missing Entity tag", and is reported ok=false.
C35_UnknownEntityWarns ==
  (SingleReported /\ EntityTag \notin KnownEntities) =>
    /\ vReport.warnings = << EntityWarning >>
    /\ IF Truthy(EntityTag)
       THEN /\ NamespaceErrorsOnly
            /\ vReport.ok <=> hasAfterlifeNamespace(SingleTags)
       ELSE /\ vReport.errors[Len(vReport.errors)] = "Missing Entity tag"
            /\ SubSeq(vReport.errors, 1, Len(vReport.errors) - 1)
                 = (IF hasAfterlifeNamespace(SingleTags) THEN << >> ELSE << NamespaceError >>)
            /\ ~vReport.ok

\* a transaction tagged with the namespace and Entity "Other" was reported ok
\* with the entity warning and exit status 0
C35_Witness ==
  /\ SingleReported
  /\ EntityTag = Str("Other")
  /\ hasAfterlifeNamespace(SingleTags)
  /\ vReport.ok
  /\ vReport.warnings = << EntityWarning >>
  /\ vExit = 0

\* ------------------------------------------------------------------------
\* Lenient parsers: edges and optional fields
\* ------------------------------------------------------------------------
\* a non-empty string
NonEmptyString(v) == v.t = "string" /\ v.v # ""

\* the snapshot document is acceptable but for its edges: an object with the
\* snapshot schema, a self_id and an ideas array with at least one entry that
\* has an idea_id and a tx_id
AcceptableButForEdges(json) ==
  /\ json.t \in {"object", "array"}
  /\ Get(json, "schema") = Str("afterlife.snapshot@1")
  /\ NonEmptyString(Get(json, "self_id"))
  /\ Get(json, "ideas").t = "array"
  /\ \E i \in 1..Len(Get(json, "ideas").items) :
       LET it == Get(json, "ideas").items[i]
       IN /\ it.t \in {"object", "array"}
          /\ NonEmptyString(Get(it, "idea_id"))
          /\ NonEmptyString(Get(it, "tx_id"))

\* an edge entry the lenient parser has no reason to drop
SoundEdge(edge) ==
  /\ edge.t \in {"object", "array"}
  /\ NonEmptyString(Get(edge, "from_idea_id"))
  /\ NonEmptyString(Get(edge, "to_idea_id"))
  /\ NonEmptyString(Get(edge, "type"))
  /\ Get(edge, "type").v \in {"supports", "contradicts", "refines", "depends-on", "derived-from"}

\* an edge entry that is malformed in one of the ways of the claim
MalformedEdge(edge) ==
  \/ edge.t \notin {"object", "array"}
  \/ \E key \in {"from_idea_id", "to_idea_id", "type"} : Get(edge, key).t # "string"
  \/ Get(edge, "type").v \notin {"supports", "contradicts", "refines", "depends-on", "derived-from"}

\* the three fields of each sound entry of the list, in the order of the list
SoundEdgesOf(raw) ==
  LET kept == SelectSeq(raw, SoundEdge)
  IN [i \in 1..Len(kept) |->
        Edge(Get(kept[i], "from_idea_id").v, Get(kept[i], "to_idea_id").v,
             Get(kept[i], "type").v)]

\* C36: parseSelfSnapshot never rejects a snapshot because of its edges: the
\* result is ok exactly when the document is acceptable but for its edges,
\* every malformed edge entry (not an object, without a string from_idea_id,
\* to_idea_id or type, or of a type outside the five allowed) is dropped, and
\* the parsed edges are the remaining entries in their original order.
C36_LenientDropsMalformedEdges ==
  (ppc = "done" /\ pFn = "parseSelfSnapshot") =>
    /\ pOut.ok <=> AcceptableButForEdges(pJson)
    /\ (pOut.ok /\ Get(pJson, "edges").t = "array") =>
         LET raw == Get(pJson, "edges").items
         IN /\ Get(pOut.value, "edges") = Arr(SoundEdgesOf(raw))
            /\ \A i \in 1..Len(raw) : MalformedEdge(raw[i]) => ~SoundEdge(raw[i])
    /\ (pOut.ok /\ Get(pJson, "edges").t # "array") =>
         Get(pOut.value, "edges") = Undefined

\* a snapshot whose first edge entry has an unknown type and whose second is
\* sound: it is parsed with the second edge alone
C36_Witness ==
  /\ ppc = "done"
  /\ pFn = "parseSelfSnapshot"
  /\ pOut.ok
  /\ Get(pJson, "edges") = Arr(<< Edge("idea2", "idea1", "likes"),
                                  Edge("idea1", "idea2", "supports") >>)
  /\ Get(pOut.value, "edges") = Arr(<< Edge("idea1", "idea2", "supports") >>)

\* the required fields of a head document are valid
RequiredHeadFieldsValid(json) ==
  /\ json.t \in {"object", "array"}
  /\ Get(json, "schema") = Str("afterlife.selfhead@1")
  /\ \A key \in {"self_id", "name", "snapshot_tx"} : NonEmptyString(Get(json, key))

\* fork_of is an object with its two string fields
SoundForkOf(v) ==
  /\ v.t = "object"
  /\ NonEmptyString(Get(v, "source_self_id"))
  /\ NonEmptyString(Get(v, "source_head_tx"))

\* links is an object with a repo or a homepage string
SoundLinks(v) ==
  /\ v.t = "object"
  /\ NonEmptyString(Get(v, "repo")) \/ NonEmptyString(Get(v, "homepage"))

\* the value of a string property, Undefined when it is not a string
StringOrAbsent(v) == IF v.t = "string" THEN v ELSE Undefined

\* C37: parseSelfHead never rejects a head because of a malformed optional
\* field: with valid required fields the result is ok with the required fields
\* unchanged; fork_of is kept only when it is an object with its two string
\* fields, links only when it is an object (with a repo or homepage string),
\* and an optional string field of another type is left out.
C37_MalformedOptionalDropped ==
  (ppc = "done" /\ pFn = "parseSelfHead" /\ RequiredHeadFieldsValid(pJson)) =>
    /\ pOut.ok
    /\ \A key \in {"schema", "self_id", "name", "snapshot_tx"} :
         Get(pOut.value, key) = Get(pJson, key)
    /\ Get(pOut.value, "fork_of") =
         (IF SoundForkOf(Get(pJson, "fork_of"))
          THEN Obj([source_self_id |-> Get(Get(pJson, "fork_of"), "source_self_id"),
                    source_head_tx |-> Get(Get(pJson, "fork_of"), "source_head_tx")])
          ELSE Undefined)
    /\ Get(pOut.value, "links") =
         (IF SoundLinks(Get(pJson, "links"))
          THEN Obj([repo |-> StringOrAbsent(Get(Get(pJson, "links"), "repo")),
                    homepage |-> StringOrAbsent(Get(Get(pJson, "links"), "homepage"))])
          ELSE Undefined)
    /\ \A key \in {"description", "owner_address", "updated_at"} :
         Get(pOut.value, key) = StringOrAbsent(Get(pJson, key))

\* a head whose fork_of lacks source_head_tx, whose links is a string and whose
\* description is a number: parsed ok without the three
C37_Witness ==
  /\ ppc = "done"
  /\ pFn = "parseSelfHead"
  /\ pJson = HeadJsonWith(Obj([source_self_id |-> Str("S0")]), Str("https://repo"), Num(7))
  /\ pOut.ok
  /\ Get(pOut.value, "fork_of") = Undefined
  /\ Get(pOut.value, "links") = Undefined
  /\ Get(pOut.value, "description") = Undefined
  /\ Get(pOut.value, "name") = Str("n")

\* the error of the first check of parseSelfHead that the document fails, in
\* the order not-an-object, schema, self_id, name, snapshot_tx; "" when it
\* passes all five
FirstHeadDefect(json) ==
  IF json.t \notin {"object", "array"} THEN "SelfHead is not an object"
  ELSE IF Get(json, "schema") # Str("afterlife.selfhead@1")
    THEN "Unexpected SelfHead schema: "
           \o (IF Get(json, "schema").t = "string" THEN Get(json, "schema").v ELSE "missing")
  ELSE IF ~NonEmptyString(Get(json, "self_id")) THEN "SelfHead.self_id missing"
  ELSE IF ~NonEmptyString(Get(json, "name")) THEN "SelfHead.name missing"
  ELSE IF ~NonEmptyString(Get(json, "snapshot_tx")) THEN "SelfHead.snapshot_tx missing"
  ELSE ""

\* the number of the five checks that the document fails
HeadDefects(json) ==
  IF json.t \notin {"object", "array"} THEN 1
  ELSE Cardinality({ key \in {"self_id", "name", "snapshot_tx"} :
                       ~NonEmptyString(Get(json, key)) })
       + (IF Get(json, "schema") # Str("afterlife.selfhead@1") THEN 1 ELSE 0)

\* C38: parseSelfHead short-circuits and is total: for every input the result
\* is either ok with a value or not ok with a single error string, and for an
\* invalid input the error is that of the first failing check in the order
\* not-an-object, schema, self_id, name, snapshot_tx.
C38_HeadShortCircuits ==
  (ppc = "done" /\ pFn = "parseSelfHead") =>
    /\ DOMAIN pOut \in { {"ok", "value"}, {"ok", "error"} }
    /\ pOut.ok <=> FirstHeadDefect(pJson) = ""
    /\ pOut.ok => DOMAIN pOut = {"ok", "value"} /\ pOut.value.t = "object"
    /\ ~pOut.ok => DOMAIN pOut = {"ok", "error"} /\ pOut.error = FirstHeadDefect(pJson)

\* a head without self_id, name and snapshot_tx: the one error is that of
\* self_id
C38_Witness ==
  /\ ppc = "done"
  /\ pFn = "parseSelfHead"
  /\ HeadDefects(pJson) = 3
  /\ Get(pJson, "schema") = Str("afterlife.selfhead@1")
  /\ pOut = [ok |-> FALSE, error |-> "SelfHead.self_id missing"]

\* the snapshot document of the run, as written to its file
SnapshotDocument == jsonDocument(snapshotPayload)

\* the head document of the run, as written to its file
HeadDocument == jsonDocument(headPayload)

\* C39: for every input accepted by validateInput, the snapshot payload and
\* the head payload that publish builds are accepted without any error by
\* validateSnapshotPayload and validateHeadPayload.
C39_PublishedPayloadsValidate ==
  /\ snapshotPayload # Undefined =>
       /\ validateSnapshotPayload(snapshotPayload) = << >>
       /\ validateSnapshotPayload(SnapshotDocument) = << >>
  /\ headPayload # Undefined =>
       /\ validateHeadPayload(headPayload) = << >>
       /\ validateHeadPayload(HeadDocument) = << >>

\* the records of a result, each taken as an edge
asEdges(nodes) == [i \in 1..Len(nodes) |-> [cursor |-> i, node |-> nodes[i]]]

\* C40: groupLatestHeadsBySelfId is pure and idempotent: a call leaves its
\* input list and records unchanged, every call with the same input returns
\* an equal output, and applied to its own output (each record taken as an
\* edge) it returns that same list in the same order.
C40_PureAndIdempotent ==
  /\ [][edges' = edges]_vars
  /\ []((gpc = "done" /\ grun > 1) => grouped = gprev)
  /\ [](gpc = "done" =>
          /\ grouped = groupLatestHeadsBySelfId(edges)
          /\ groupLatestHeadsBySelfId(asEdges(grouped)) = grouped)

\* a second call has returned two winners of equal height out of a longer
\* input
C40_Witness ==
  /\ gpc = "done"
  /\ grun = 2
  /\ Len(grouped) = 2
  /\ blockHeight(grouped[1]) = blockHeight(grouped[2])
  /\ Len(edges) > 2
  /\ grouped = gprev

====
